---------------------------- MODULE Spec2Model ----------------------------
(***************************************************************************)
(* A model of picolony's text-rendering core: the fixed-capacity glyph     *)
(* cache (src/cache.rs), the Unicode -> JIS kuten table (src/string.rs),   *)
(* the font and its 8x12 glyph source (src/graphics/font.rs), the text     *)
(* layout (src/graphics/drawables.rs) and the line reader and writer       *)
(* (src/io.rs).                                                            *)
(*                                                                         *)
(* Rust's Option is modelled as a sequence: None is <<>>, Some(v) is <<v>>.*)
(* A panic (index out of bounds, a failed expect, an arithmetic overflow   *)
(* in a build with overflow checks) sets `panicked`; nothing runs after it.*)
(***************************************************************************)
EXTENDS Integers, Sequences, FiniteSets, TLC

VARIABLES
    SIZE,        \* const generic SIZE / CACHE_SIZE of the cache under test
    index_map,   \* SimpleCacheMap::index_map : key -> index into data
    data,        \* SimpleCacheMap::data : 0..SIZE-1 -> (key, value)
    cursor,      \* SimpleCacheMap::cursor
    panicked,    \* TRUE once an operation has panicked
    call,        \* the last call made on the object under test, with its result
    pre,         \* the cache as it was when the last call started
    inserted,    \* the (key, value) pairs handed to put so far, in order
    build,       \* how the crate was built: overflow checks on or off, usize width
    table_bytes, \* the byte slice handed to Unicode2JisTable::new
    table,       \* Unicode2JisTable::new's result for table_bytes, once called
    font_bitmap, \* JisFont::font_bitmap, the bitmap handed to JisFont::new
    layout,      \* the text object being drawn and the locals of the running call
    target,      \* the draw target: the glyph draws it has accepted, in order
    reader,      \* the LineReader under test
    writer       \* the LineWriter under test

cacheVars == <<SIZE, index_map, data, cursor>>
logVars == <<call, pre, inserted>>
tableVars == <<build, table_bytes, table>>
fontVars == <<font_bitmap>>
drawVars == <<layout, target>>
ioVars == <<reader, writer>>
vars == <<SIZE, index_map, data, cursor, panicked, call, pre, inserted,
          build, table_bytes, table, font_bitmap, layout, target, reader, writer>>

---------------------------------------------------------------------------
(* Bounds of the model. *)

MaxCap == 2      \* capacities 1..MaxCap are explored
MaxKey == 2      \* cache keys 0..MaxKey (0 is K::default())
MaxVal == 2      \* cache values 1..MaxVal (0 is V::default())
MaxElems == 3    \* table blobs hold up to MaxElems described elements

Capacities == 1..MaxCap
Keys == 0..MaxKey
Values == 1..MaxVal

---------------------------------------------------------------------------
(* Option<T> *)

None == <<>>
Some(v) == <<v>>
IsSome(o) == Len(o) = 1
Unwrap(o) == o[1]

---------------------------------------------------------------------------
(* heapless::FnvIndexMap<K, usize, SIZE>, as SimpleCacheMap uses it: a     *)
(* finite map that holds at most SIZE keys.                                *)

EmptyMap == [k \in {} |-> 0]

contains_key(m, key) == key \in DOMAIN m

remove(m, key) == [k \in (DOMAIN m) \ {key} |-> m[k]]

\* insert returns Err when the key is new and the map already holds `cap` keys.
insert_fails(m, key, cap) == key \notin DOMAIN m /\ Cardinality(DOMAIN m) >= cap

insert(m, key, i) == [k \in (DOMAIN m) \cup {key} |-> IF k = key THEN i ELSE m[k]]

---------------------------------------------------------------------------
(* SimpleCacheMap<K, V, SIZE> (src/cache.rs).  A cache value c is the      *)
(* record [index_map, data, cursor]; its capacity is the length of data.   *)

Capacity(c) == Cardinality(DOMAIN c.data)

\* SimpleCacheMap::new: every slot holds (K::default(), V::default()).
new(size, default_key, default_value) ==
    [index_map |-> EmptyMap,
     data      |-> [i \in 0..(size - 1) |-> [key |-> default_key, val |-> default_value]],
     cursor    |-> 0]

\* SimpleCacheMap::get
get(c, key) ==
    IF key \in DOMAIN c.index_map THEN Some(c.data[c.index_map[key]].val) ELSE None

\* SimpleCacheMap::put.  `self.data[self.cursor]` panics when the cursor is
\* outside the array; `.expect("No spece left")` panics when insert fails;
\* `self.cursor += 1` is the only update of the cursor.
put(c, key, value) ==
    IF c.cursor \notin DOMAIN c.data
    THEN [cache |-> c, ret |-> None, panic |-> TRUE]
    ELSE LET reverse_key == c.data[c.cursor].key
             removed == IF contains_key(c.index_map, reverse_key)
                        THEN remove(c.index_map, reverse_key)
                        ELSE c.index_map
             stored == [c.data EXCEPT ![c.cursor] = [key |-> key, val |-> value]]
         IN  IF insert_fails(removed, key, Capacity(c))
             THEN [cache |-> [c EXCEPT !.index_map = removed, !.data = stored],
                   ret   |-> None,
                   panic |-> TRUE]
             ELSE [cache |-> [index_map |-> insert(removed, key, c.cursor),
                              data      |-> stored,
                              cursor    |-> c.cursor + 1],
                   ret   |-> Some(value),
                   panic |-> FALSE]

\* A get_or_else that stores V::default() when the generator yields nothing.
get_or_else_storing_default(c, key, generated) ==
    IF key \in DOMAIN c.index_map
    THEN [cache |-> c, ret |-> Some(c.data[c.index_map[key]].val), panic |-> FALSE,
          generator_called |-> FALSE, puts |-> <<>>]
    ELSE LET value == IF generated = None THEN 0 ELSE Unwrap(generated)
             p == put(c, key, value)
         IN  [cache |-> p.cache, ret |-> IF generated = None THEN None ELSE p.ret,
              panic |-> p.panic, generator_called |-> TRUE,
              puts |-> <<[key |-> key, val |-> value]>>]

\* SimpleCacheMap::get_or_else.  `generated` is what generate_value(key) yields
\* if it is called; `puts` lists the put calls made.
get_or_else(c, key, generated) ==
    IF key \in DOMAIN c.index_map
    THEN [cache |-> c, ret |-> Some(c.data[c.index_map[key]].val), panic |-> FALSE,
          generator_called |-> FALSE, puts |-> <<>>]
    ELSE IF generated = None
         THEN [cache |-> c, ret |-> None, panic |-> FALSE,
               generator_called |-> TRUE, puts |-> <<>>]
         ELSE LET p == put(c, key, Unwrap(generated))
              IN  [cache |-> p.cache, ret |-> p.ret, panic |-> p.panic,
                   generator_called |-> TRUE,
                   puts |-> <<[key |-> key, val |-> Unwrap(generated)]>>]

---------------------------------------------------------------------------
(* Rust integer operations used by the table.                              *)

RECURSIVE CountTrailingZeros(_)
CountTrailingZeros(x) == IF x % 2 = 1 THEN 0 ELSE 1 + CountTrailingZeros(x \div 2)

\* usize::trailing_zeros: the width of the type for 0.
trailing_zeros(x, bits) == IF x = 0 THEN bits ELSE CountTrailingZeros(x)

\* `x >> n` and `x << n` on a type of `bits` bits overflow when n >= bits: a
\* panic in a build with overflow checks, and otherwise the shift amount is
\* masked to n % bits.  The shifted values of the model stay far below 2^31,
\* so the left shift needs no truncation.
shift_overflows(n, bits) == n >= bits
shr(x, n, bits) == x \div (2 ^ (n % bits))
shl(x, n, bits) == x * (2 ^ (n % bits))

u16_from_le_bytes(lo, hi) == lo + 256 * hi

\* `c as u16`
as_u16(c) == c % 65536

Min(a, b) == IF a <= b THEN a ELSE b

---------------------------------------------------------------------------
(* The table blob.  A blob of up to 393216 bytes is described by a record   *)
(* [len, header, chains_count, chains, elements] and read byte by byte      *)
(* through ByteAt: 4 header bytes, then chains_count little-endian u16      *)
(* bucket offsets (`chains` gives the buckets that are not 0), then 4-byte  *)
(* elements (codepoint little-endian, ku, ten; 0 past the described ones).  *)

ByteAt(bytes, i) ==
    IF i < 4 THEN bytes.header[i + 1]
    ELSE IF i < 4 + 2 * bytes.chains_count
    THEN LET chain == (i - 4) \div 2
             v == IF chain \in DOMAIN bytes.chains THEN bytes.chains[chain] ELSE 0
         IN  IF (i - 4) % 2 = 0 THEN v % 256 ELSE v \div 256
    ELSE LET at == i - 4 - 2 * bytes.chains_count
             e == (at \div 4) + 1
         IN  IF e \notin DOMAIN bytes.elements THEN 0
             ELSE CASE at % 4 = 0 -> bytes.elements[e].cp % 256
                    [] at % 4 = 1 -> bytes.elements[e].cp \div 256
                    [] at % 4 = 2 -> bytes.elements[e].ku
                    [] OTHER      -> bytes.elements[e].ten

\* A sub-slice &bytes[from..to] and its i-th byte; an index past the end panics.
Slice(from, to) == [from |-> from, to |-> to]
SliceLen(sl) == sl.to - sl.from
SliceAt(bytes, sl, i) == ByteAt(bytes, sl.from + i)

---------------------------------------------------------------------------
(* Unicode2JisTable (src/string.rs).                                       *)

NewResult(result, panic, t) == [result |-> result, panic |-> panic, table |-> t]

\* Unicode2JisTable::new
Unicode2JisTable_new(bytes, bld) ==
    IF bytes.len < 4
    THEN NewResult("InsufficientSize", FALSE, <<>>)
    ELSE LET chain_length == u16_from_le_bytes(ByteAt(bytes, 0), ByteAt(bytes, 1))
             elements_count == u16_from_le_bytes(ByteAt(bytes, 2), ByteAt(bytes, 3))
             chain_length_bit == trailing_zeros(chain_length, bld.usize_bits)
         IN  IF bld.overflow_checks /\ shift_overflows(chain_length_bit, bld.usize_bits)
             THEN NewResult("panic", TRUE, <<>>)
             ELSE LET chains_count == shr(65536, chain_length_bit, bld.usize_bits)
                      expected_size == 4 + (chains_count * 2) + (elements_count * 4)
                  IN  IF bytes.len # expected_size
                      THEN NewResult("IncorrectData", FALSE, <<>>)
                      ELSE NewResult("Ok", FALSE,
                               [chain_indices    |-> Slice(4, 4 + chains_count * 2),
                                table_elements   |-> Slice(4 + chains_count * 2, bytes.len),
                                chain_length_bit |-> chain_length_bit,
                                elements_count   |-> elements_count])

QueryResult(ret, panic, inspected) == [ret |-> ret, panic |-> panic, inspected |-> inspected]

\* A chain end that forgets the chain's start.
chain_end_from_zero(chain_start, chain_length_bit, elements_count, bld) ==
    Min(shl(1, chain_length_bit, bld.usize_bits), elements_count)

\* A chain end that is not clamped to the number of elements.
chain_end_unclamped(chain_start, chain_length_bit, elements_count, bld) ==
    chain_start + shl(1, chain_length_bit, bld.usize_bits)

\* `(chain_start + (1 << self.chain_length_bit)).min(self.elements_count)`
chain_end(chain_start, chain_length_bit, elements_count, bld) ==
    Min(chain_start + shl(1, chain_length_bit, bld.usize_bits), elements_count)

\* The loop `for element_index in chain_start..chain_end` of query, from
\* element_index on; `inspected` counts the elements read so far.
RECURSIVE scan_chain(_, _, _, _, _, _)
scan_chain(bytes, t, c, element_index, end, inspected) ==
    IF element_index >= end
    THEN QueryResult(None, FALSE, inspected)
    ELSE IF (element_index + 1) * 4 > SliceLen(t.table_elements)
    THEN QueryResult(None, TRUE, inspected)
    ELSE LET at == element_index * 4
             element_char == u16_from_le_bytes(SliceAt(bytes, t.table_elements, at),
                                               SliceAt(bytes, t.table_elements, at + 1))
         IN  IF c > element_char
             THEN scan_chain(bytes, t, c, element_index + 1, end, inspected + 1)
             ELSE IF c = element_char
             THEN QueryResult(Some(<<SliceAt(bytes, t.table_elements, at + 2),
                                     SliceAt(bytes, t.table_elements, at + 3)>>),
                              FALSE, inspected + 1)
             ELSE QueryResult(None, FALSE, inspected + 1)

\* Unicode2JisTable::query for the character with codepoint `ch`.
Unicode2JisTable_query(bytes, t, bld, ch) ==
    LET c == as_u16(ch)
    IN  IF bld.overflow_checks /\ shift_overflows(t.chain_length_bit, 32)
        THEN QueryResult(None, TRUE, 0)
        ELSE LET chain == shr(c, t.chain_length_bit, 32)
             IN  IF chain * 2 + 1 >= SliceLen(t.chain_indices)
                 THEN QueryResult(None, TRUE, 0)
                 ELSE LET chain_start ==
                              u16_from_le_bytes(SliceAt(bytes, t.chain_indices, chain * 2),
                                                SliceAt(bytes, t.chain_indices, chain * 2 + 1))
                      IN  IF bld.overflow_checks
                             /\ shift_overflows(t.chain_length_bit, bld.usize_bits)
                          THEN QueryResult(None, TRUE, 0)
                          ELSE scan_chain(bytes, t, c, chain_start,
                                          chain_end(chain_start, t.chain_length_bit,
                                                    t.elements_count, bld),
                                          0)

---------------------------------------------------------------------------
(* The cache as a state machine: a new cache, then any sequence of calls.  *)

\* No table is under test in this specification.
NoTableUnderTest ==
    /\ build = [overflow_checks |-> FALSE, usize_bits |-> 32]
    /\ table_bytes = <<>>
    /\ table = <<>>

\* No font is under test in this specification.
NoFontUnderTest == font_bitmap = <<>>

\* No text is drawn in this specification.
NoTextUnderTest == layout = <<>> /\ target = <<>>

\* No LineReader or LineWriter is under test in this specification.
NoIoUnderTest == reader = <<>> /\ writer = <<>>

Cache == [index_map |-> index_map, data |-> data, cursor |-> cursor]

NoCall == [op |-> "none", key |-> 0, generated |-> None, ret |-> None,
           generator_called |-> FALSE, puts |-> <<>>]

SetCache(c) ==
    /\ index_map' = c.index_map
    /\ data' = c.data
    /\ cursor' = c.cursor

CacheInit ==
    /\ NoIoUnderTest
    /\ NoTableUnderTest
    /\ NoFontUnderTest
    /\ NoTextUnderTest
    /\ SIZE \in Capacities
    /\ index_map = new(SIZE, 0, 0).index_map
    /\ data = new(SIZE, 0, 0).data
    /\ cursor = new(SIZE, 0, 0).cursor
    /\ panicked = FALSE
    /\ call = NoCall
    /\ pre = new(SIZE, 0, 0)
    /\ inserted = <<>>

Get(key) ==
    /\ ~panicked
    /\ call' = [op |-> "get", key |-> key, generated |-> None,
                ret |-> get(Cache, key), generator_called |-> FALSE, puts |-> <<>>]
    /\ pre' = Cache
    /\ UNCHANGED <<SIZE, index_map, data, cursor, panicked, inserted>>
    /\ UNCHANGED <<tableVars, fontVars, ioVars, drawVars>>

Put(key, value) ==
    /\ ~panicked
    /\ LET p == put(Cache, key, value)
       IN  /\ SetCache(p.cache)
           /\ panicked' = p.panic
           /\ call' = [op |-> "put", key |-> key, generated |-> Some(value),
                       ret |-> p.ret, generator_called |-> FALSE,
                       puts |-> <<[key |-> key, val |-> value]>>]
    /\ pre' = Cache
    /\ inserted' = Append(inserted, [key |-> key, val |-> value])
    /\ UNCHANGED SIZE
    /\ UNCHANGED <<tableVars, fontVars, ioVars, drawVars>>

GetOrElse(key, generated) ==
    /\ ~panicked
    /\ LET g == get_or_else(Cache, key, generated)
       IN  /\ SetCache(g.cache)
           /\ panicked' = g.panic
           /\ call' = [op |-> "get_or_else", key |-> key, generated |-> generated,
                       ret |-> g.ret, generator_called |-> g.generator_called,
                       puts |-> g.puts]
           /\ inserted' = inserted \o g.puts
    /\ pre' = Cache
    /\ UNCHANGED SIZE
    /\ UNCHANGED <<tableVars, fontVars, ioVars, drawVars>>

CacheNext ==
    \/ \E key \in Keys : Get(key)
    \/ \E key \in Keys, value \in Values : Put(key, value)
    \/ \E key \in Keys, generated \in {None} \cup {Some(v) : v \in Values} :
           GetOrElse(key, generated)

Spec == CacheInit /\ [][CacheNext]_vars

---------------------------------------------------------------------------
(* Claims about the cache, checked under Spec.                             *)

DistinctKeys(s) == \A i, j \in 1..Len(s) : i # j => s[i].key # s[j].key

\* C1: after inserting SIZE+1 distinct keys into a new cache, get returns
\* None for the first-inserted key and the stored value for each of the
\* other SIZE keys, however many lookups were interleaved.
C1_EvictsExactlyFirstInserted ==
    (Len(inserted) = SIZE + 1 /\ DistinctKeys(inserted)) =>
        /\ ~panicked
        /\ get(Cache, inserted[1].key) = None
        /\ \A i \in 2..(SIZE + 1) : get(Cache, inserted[i].key) = Some(inserted[i].val)

\* C2: every put completes without a fatal failure and returns the value
\* just stored; the cursor stays in 0..SIZE-1 in every reachable state and
\* the k-th put (k from 0) writes slot k mod SIZE.
C2_PutNeverFailsCursorInRange ==
    /\ ~panicked
    /\ cursor \in 0..(SIZE - 1)
    /\ call.op = "put" =>
           /\ call.ret = call.generated
           /\ data[(Len(inserted) - 1) % SIZE] =
                  [key |-> call.key, val |-> Unwrap(call.generated)]

\* C4: get_or_else on a key that is not cached, with a generator that yields
\* no value, returns None and leaves index_map, data and cursor as they were.
C4_GetOrElseNoneLeavesCache ==
    (call.op = "get_or_else" /\ get(pre, call.key) = None /\ call.generated = None) =>
        /\ call.ret = None
        /\ ~panicked
        /\ Cache = pre

\* C4's case on a cache that already holds entries.
C4_Witness ==
    /\ call.op = "get_or_else"
    /\ get(pre, call.key) = None
    /\ call.generated = None
    /\ call.generator_called
    /\ DOMAIN index_map # {}
    /\ cursor > 0

\* C5: get_or_else on a cached key returns the cached value without calling
\* the generator and without changing the cache; on a key that is not cached,
\* with a generator yielding v, it makes exactly one put(key, v) and returns
\* v, and get(key) returns v right afterwards.
C5_GetOrElseHitOrInsert ==
    call.op = "get_or_else" =>
        IF get(pre, call.key) # None
        THEN /\ call.ret = get(pre, call.key)
             /\ ~call.generator_called
             /\ call.puts = <<>>
             /\ Cache = pre
        ELSE call.generated # None =>
                 /\ ~panicked
                 /\ call.puts = <<[key |-> call.key, val |-> Unwrap(call.generated)]>>
                 /\ call.ret = call.generated
                 /\ get(Cache, call.key) = call.generated

---------------------------------------------------------------------------
(* The table as a state machine: a blob, Unicode2JisTable::new on it, then  *)
(* any sequence of queries on the table it returned.                       *)

\* No cache is under test in this specification.
NoCacheUnderTest ==
    /\ SIZE = 1
    /\ index_map = new(1, 0, 0).index_map
    /\ data = new(1, 0, 0).data
    /\ cursor = 0
    /\ pre = new(1, 0, 0)
    /\ inserted = <<>>

Builds == [overflow_checks : BOOLEAN, usize_bits : {32, 64}]

\* Codepoints of table elements: 2, 3, 4, U+3042, U+3044, U+8000.
CodePoints == {2, 3, 4, 12354, 12356, 32768}

\* Characters queried: the above, their neighbours, U+FFFF and U+10FFFF.
QueryChars == CodePoints \cup {0, 5, 12355, 65535, 1114111}

\* Element lists sorted by codepoint (equal neighbours allowed); element i
\* has ku = i, so that no two elements of a table share a kuten.
SortedCodePoints ==
    UNION {{s \in [1..n -> CodePoints] : \A i \in 1..(n - 1) : s[i] <= s[i + 1]} :
           n \in 0..MaxElems}

ElementsOf(s) == [i \in 1..Len(s) |-> [cp |-> s[i], ku |-> i, ten |-> 1 + (s[i] % 94)]]

\* The blob of a table with bucket span chain_length (a power of two) and
\* the given elements: the offset of bucket b is the number of elements whose
\* codepoint is below b * chain_length, the index of the bucket's first
\* element.  Only the buckets of `chars` are described: no other is read.
TableBlobFor(chain_length, elements, chars) ==
    LET chains_count == 65536 \div chain_length
    IN  [len          |-> 4 + 2 * chains_count + 4 * Len(elements),
         header       |-> <<chain_length % 256, chain_length \div 256,
                            Len(elements) % 256, Len(elements) \div 256>>,
         chains_count |-> chains_count,
         chains       |-> [b \in {as_u16(c) \div chain_length : c \in chars} |->
                              Cardinality({i \in 1..Len(elements) :
                                              elements[i].cp < b * chain_length})],
         elements     |-> elements]

WellFormedBlobs ==
    {TableBlobFor(chain_length, ElementsOf(s), QueryChars) :
        chain_length \in {2, 16, 32768}, s \in SortedCodePoints}

\* Blobs of zero bytes under a header (chain_length, elements_count), of a
\* length below 4, equal to a candidate total size, or one byte off it.
HeaderBlob(chain_length, elements_count, len) ==
    [len          |-> len,
     header       |-> <<chain_length % 256, chain_length \div 256,
                        elements_count % 256, elements_count \div 256>>,
     chains_count |-> 0,
     chains       |-> EmptyMap,
     elements     |-> <<>>]

\* The values `0x10000 >> trailing_zeros(chain_length)` can be read to have:
\* for chain_length 0 either 0 (all bits shifted out) or 0x10000 (a masked
\* shift amount).
CandidateChains(chain_length) ==
    IF chain_length = 0 THEN {0, 65536}
    ELSE {65536 \div (2 ^ CountTrailingZeros(chain_length))}

HeaderLens(chain_length, elements_count) ==
    (0..4) \cup UNION {{e - 1, e, e + 1} :
                       e \in {4 + 2 * k + 4 * elements_count :
                              k \in CandidateChains(chain_length)}}

\* (258 elements only under spans up to 16, which keeps every scan short.)
HeaderBlobs ==
    UNION {{HeaderBlob(h[1], h[2], len) : len \in HeaderLens(h[1], h[2])} :
           h \in ({0, 1, 6, 16, 32768} \X {0, 1}) \cup ({0, 1, 6, 16} \X {258})}

TableInit ==
    /\ NoIoUnderTest
    /\ NoCacheUnderTest
    /\ NoFontUnderTest
    /\ NoTextUnderTest
    /\ build \in Builds
    /\ table_bytes \in WellFormedBlobs \cup HeaderBlobs
    /\ table = <<>>
    /\ panicked = FALSE
    /\ call = NoCall

\* let table = Unicode2JisTable::new(table_bytes);
New ==
    /\ ~panicked
    /\ table = <<>>
    /\ LET r == Unicode2JisTable_new(table_bytes, build)
       IN  /\ table' = <<r>>
           /\ panicked' = r.panic
    /\ UNCHANGED <<cacheVars, logVars, build, table_bytes, fontVars, ioVars, drawVars>>

\* table.query(ch) on a table that new returned.
Query(ch) ==
    /\ ~panicked
    /\ table # <<>>
    /\ table[1].result = "Ok"
    /\ LET q == Unicode2JisTable_query(table_bytes, table[1].table, build, ch)
       IN  /\ call' = [op |-> "query", key |-> ch, ret |-> q.ret,
                       inspected |-> q.inspected]
           /\ panicked' = q.panic
    /\ UNCHANGED <<cacheVars, pre, inserted, tableVars, fontVars, ioVars, drawVars>>

TableNext ==
    \/ New
    \/ \E ch \in QueryChars : Query(ch)

SpecTable == TableInit /\ [][TableNext]_vars

---------------------------------------------------------------------------
(* Claims about the table, checked under SpecTable.                        *)

SortedAscending(elements) ==
    \A i \in 1..(Len(elements) - 1) : elements[i].cp <= elements[i + 1].cp

StrictlyAscending(elements) ==
    \A i \in 1..(Len(elements) - 1) : elements[i].cp < elements[i + 1].cp

\* The reference: a linear search over the whole element array.
LinearSearch(elements, c) ==
    IF \E i \in 1..Len(elements) : elements[i].cp = c
    THEN LET i == CHOOSE i \in 1..Len(elements) :
                      /\ elements[i].cp = c
                      /\ \A j \in 1..(i - 1) : elements[j].cp # c
         IN  Some(<<elements[i].ku, elements[i].ten>>)
    ELSE None

HeaderChainLength(bytes) == bytes.header[1] + 256 * bytes.header[2]
HeaderElementsCount(bytes) == bytes.header[3] + 256 * bytes.header[4]

\* The scan of the last query stopped at the first element that is not
\* below the character: every element it read but the last one is below it.
StoppedAtFirstNotBelow ==
    LET start == table_bytes.chains[call.key \div HeaderChainLength(table_bytes)]
    IN  \A j \in 1..(call.inspected - 1) : table_bytes.elements[start + j].cp < call.key

QueryMatchesLinearSearch ==
    /\ ~panicked
    /\ call.ret = LinearSearch(table_bytes.elements, call.key)
    /\ StoppedAtFirstNotBelow

\* C6 as stated: on a table whose elements are sorted ascending by codepoint
\* and whose bucket offsets point at the first element of each bucket,
\* query(c) for c in 0..0xFFFF equals a linear search over the whole element
\* array, and the scan returns None as soon as it meets a greater codepoint.
C6_QueryEqualsLinearSearch ==
    (/\ call.op = "query"
     /\ call.key <= 65535
     /\ table_bytes \in WellFormedBlobs
     /\ SortedAscending(table_bytes.elements)) => QueryMatchesLinearSearch

\* C6 amended: the same, for a table whose codepoints are strictly ascending
\* (no two elements share a codepoint).
C6_QueryEqualsLinearSearchStrict ==
    (/\ call.op = "query"
     /\ call.key <= 65535
     /\ table_bytes \in WellFormedBlobs
     /\ StrictlyAscending(table_bytes.elements)) => QueryMatchesLinearSearch

\* A query that finds its character behind another element of the bucket, in
\* a table whose first bucket element is not element 0.
C6_Witness ==
    /\ call.op = "query"
    /\ call.key <= 65535
    /\ table_bytes \in WellFormedBlobs
    /\ StrictlyAscending(table_bytes.elements)
    /\ call.ret # None
    /\ call.inspected = 2
    /\ table_bytes.chains[call.key \div HeaderChainLength(table_bytes)] > 0

\* C7: new returns InsufficientSize below 4 bytes; otherwise, with
\* chains_count = 0x10000 >> trailing_zeros(chain_length), it returns
\* IncorrectData when len # 4 + chains_count*2 + elements_count*4 and
\* succeeds when the length matches.  (Either reading of the shift at
\* chain_length 0 is accepted.)
C7_NewChecksTheLength ==
    table # <<>> =>
        IF table_bytes.len < 4
        THEN table[1].result = "InsufficientSize"
        ELSE \E chains_count \in CandidateChains(HeaderChainLength(table_bytes)) :
                 LET expected == 4 + chains_count * 2
                                   + HeaderElementsCount(table_bytes) * 4
                 IN  IF table_bytes.len # expected
                     THEN table[1].result = "IncorrectData"
                     ELSE table[1].result = "Ok"

\* What does hold of new: C7 in every build for a chain_length that is not
\* 0, and for chain_length 0 in a build without overflow checks (with
\* chains_count = 0x10000).
NewChecksTheLengthUnlessItPanics ==
    (table # <<>> /\ table[1].result # "panic") => C7_NewChecksTheLength

NewPanicsOnlyAtChainLengthZero ==
    (table # <<>> /\ table[1].result = "panic") =>
        /\ build.overflow_checks
        /\ table_bytes.len >= 4
        /\ HeaderChainLength(table_bytes) = 0

---------------------------------------------------------------------------
(* JisFont and JisFont8x12 (src/graphics/font.rs).                         *)

JIS_KUTEN_WIDTH == 94
WIDTH == 8
HEIGHT == 12

\* A font bitmap of `len` bytes is described by [len, mul]: byte i is
\* (mul * i) % 256, so mul = 0 is the all-zero bitmap and any other mul
\* gives neighbouring rows and glyphs different bit patterns.
BitmapByte(bitmap, i) == (bitmap.mul * i) % 256

\* JisFont8x12::validate_bitmap
validate_bitmap(bitmap) ==
    LET expected == JIS_KUTEN_WIDTH * JIS_KUTEN_WIDTH * 12
    IN  bitmap.len = expected

\* A fetch that takes ku and ten as indices from 0.
fetch_from_zero(bitmap, kuten) ==
    LET base_index == kuten[1] * JIS_KUTEN_WIDTH + kuten[2]
    IN  IF (base_index + 1) * 12 > bitmap.len
        THEN [glyph |-> <<>>, panic |-> TRUE, range |-> <<>>]
        ELSE [glyph |-> [r \in 0..11 |-> BitmapByte(bitmap, base_index * 12 + r)],
              panic |-> FALSE,
              range |-> <<base_index * 12, (base_index + 1) * 12>>]

\* JisFont8x12::fetch: the glyph is rows 0..11, one byte each.  `ku - 1` or
\* `ten - 1` below 0, or a range past the end of the bitmap, panics.
\* `range` is the slice of the bitmap that is copied, from (inclusive) and
\* to (exclusive).
fetch(bitmap, kuten) ==
    LET ku == kuten[1]
        ten == kuten[2]
        base_index == (ku - 1) * JIS_KUTEN_WIDTH + (ten - 1)
    IN  IF ku < 1 \/ ten < 1 \/ (base_index + 1) * 12 > bitmap.len
        THEN [glyph |-> <<>>, panic |-> TRUE, range |-> <<>>]
        ELSE [glyph |-> [r \in 0..11 |-> BitmapByte(bitmap, base_index * 12 + r)],
              panic |-> FALSE,
              range |-> <<base_index * 12, (base_index + 1) * 12>>]

\* <JisFont8x12 as JisFontInterface>::Cached::default(): [0; 12]
DefaultGlyph == [r \in 0..11 |-> 0]

\* JisFont::new, given the compiled-in table blob.
JisFont_new(bitmap, uni2jis_data, bld) ==
    IF ~validate_bitmap(bitmap)
    THEN [result |-> "InvalidFontBitmap", panic |-> FALSE]
    ELSE LET t == Unicode2JisTable_new(uni2jis_data, bld)
         IN  IF t.panic THEN [result |-> "panic", panic |-> TRUE]
             ELSE IF t.result # "Ok"
             THEN [result |-> "InvalidUni2Jis", panic |-> FALSE, error |-> t.result]
             ELSE [result |-> "Ok", panic |-> FALSE, uni2jis_table |-> t,
                   font_cache |-> new(SIZE, 0, DefaultGlyph)]

\* The closure handed to get_or_else by JisFont::query:
\* |_| { let kuten = table.query(draw_char)?; Some(I::fetch(bitmap, kuten)) }
generate_glyph(bitmap, bytes, t, bld, draw_char) ==
    LET q == Unicode2JisTable_query(bytes, t, bld, draw_char)
    IN  IF q.panic THEN [ret |-> None, panic |-> TRUE]
        ELSE IF q.ret = None THEN [ret |-> None, panic |-> FALSE]
        ELSE LET f == fetch(bitmap, Unwrap(q.ret))
             IN  IF f.panic THEN [ret |-> None, panic |-> TRUE]
                 ELSE [ret |-> Some(f.glyph), panic |-> FALSE]

\* JisFont::query
JisFont_query(c, bitmap, bytes, t, bld, draw_char) ==
    LET key == as_u16(draw_char)
    IN  IF get(c, key) # None
        THEN get_or_else(c, key, None)
        ELSE LET g == generate_glyph(bitmap, bytes, t, bld, draw_char)
             IN  IF g.panic
                 THEN [cache |-> c, ret |-> None, panic |-> TRUE,
                       generator_called |-> TRUE, puts |-> <<>>]
                 ELSE get_or_else(c, key, g.ret)

---------------------------------------------------------------------------
(* The font as a state machine: JisFont::new, then any sequence of queries. *)

\* Characters: 'A'..'E' (mapped), U+10FFFF (not mapped), U+10041 (above
\* U+FFFF, with the low 16 bits of 'A').
MappedChars == {65, 66, 67, 68, 69}
FontChars == MappedChars \cup {1114111, 65601}

\* The compiled-in table assets/uni2jis.bin is not part of the sources: a
\* table of bucket span 16 that maps 'A'..'E' to kuten (3, 33)..(3, 37), as
\* JIS X 0208 does, stands for it.
UNI2JIS_DATA ==
    TableBlobFor(16,
                 [i \in 1..5 |-> [cp |-> 64 + i, ku |-> 3, ten |-> 32 + i]],
                 FontChars)

FontBitmaps == {[len |-> JIS_KUTEN_WIDTH * JIS_KUTEN_WIDTH * 12, mul |-> m] : m \in {0, 37}}

\* The build does not matter to a font whose table has a chain_length other
\* than 0: one build is explored.
FontBuild == [overflow_checks |-> TRUE, usize_bits |-> 32]

\* let font = JisFont::<JisFont8x12, SIZE>::new(font_bitmap)   (Ok)
FontConstructed(capacities) ==
    /\ SIZE \in capacities
    /\ build = FontBuild
    /\ font_bitmap \in FontBitmaps
    /\ table_bytes = UNI2JIS_DATA
    /\ LET f == JisFont_new(font_bitmap, table_bytes, build)
       IN  /\ f.result = "Ok"
           /\ table = <<f.uni2jis_table>>
           /\ index_map = f.font_cache.index_map
           /\ data = f.font_cache.data
           /\ cursor = f.font_cache.cursor
           /\ pre = f.font_cache
    /\ panicked = FALSE
    /\ call = NoCall
    /\ inserted = <<>>

FontInit ==
    /\ NoIoUnderTest
    /\ FontConstructed(Capacities)
    /\ NoTextUnderTest

\* font.query(draw_char)
FontQuery(draw_char) ==
    /\ ~panicked
    /\ LET q == JisFont_query(Cache, font_bitmap, table_bytes, table[1].table, build,
                              draw_char)
       IN  /\ SetCache(q.cache)
           /\ panicked' = q.panic
           /\ call' = [op |-> "font_query", key |-> draw_char, ret |-> q.ret,
                       generator_called |-> q.generator_called, puts |-> q.puts]
           /\ inserted' = inserted \o q.puts
    /\ pre' = Cache
    /\ UNCHANGED <<SIZE, tableVars, fontVars, ioVars, drawVars>>

FontNext == \E draw_char \in FontChars : FontQuery(draw_char)

SpecFont == FontInit /\ [][FontNext]_vars

---------------------------------------------------------------------------
(* Claims about the font, checked under SpecFont.                          *)

\* What a lookup without the cache gives for the character of the last call.
UncachedLookup ==
    generate_glyph(font_bitmap, table_bytes, table[1].table, build, call.key).ret

\* C3: in any sequence of JisFont::query calls, each query(c) completes and
\* returns what an uncached lookup would (None without a table entry,
\* otherwise fetch(font_bitmap, table.query(c))), and after a query that
\* returned a glyph the cache holds that glyph for c.
C3_QueryEqualsUncachedLookup ==
    call.op = "font_query" =>
        /\ ~panicked
        /\ call.ret = UncachedLookup
        /\ call.ret # None => get(Cache, as_u16(call.key)) = call.ret

\* What does hold of query: the same for every call that returns.
QueryEqualsUncachedLookupUnlessItPanics ==
    (call.op = "font_query" /\ ~panicked) =>
        /\ call.ret = UncachedLookup
        /\ call.ret # None => get(Cache, as_u16(call.key)) = call.ret

\* query panics only in put, on a miss of a full cache.
QueryPanicsOnlyWhenCacheIsFull ==
    (call.op = "font_query" /\ panicked) =>
        /\ pre.cursor = SIZE
        /\ get(pre, as_u16(call.key)) = None
        /\ UncachedLookup # None

---------------------------------------------------------------------------
(* JisFont8x12::draw (src/graphics/font.rs): painting one glyph.           *)

Pixel(point, color) == [point |-> point, color |-> color]

\* A mask that counts the columns from the least significant bit.
shifted_bit_lsb_first(glyph_x) == 2 ^ glyph_x

\* `1 << (7 - glyph_x)`
shifted_bit(glyph_x) == 2 ^ (7 - glyph_x)

\* `x & shifted_bit != 0` for a byte x and a one-bit mask
bit_is_set(x, mask) == (x \div mask) % 2 = 1

\* The inner closure of draw: the pixel, if any, of column glyph_x of the row
\* byte x at row glyph_y.
glyph_pixel(offset, fore_color, back_color, x, glyph_y, glyph_x) ==
    LET point == <<offset[1] + glyph_x, offset[2] + glyph_y>>
    IN  IF bit_is_set(x, shifted_bit(glyph_x))
        THEN Some(Pixel(point, fore_color))
        ELSE IF back_color = None THEN None
             ELSE Some(Pixel(point, Unwrap(back_color)))

\* The iterator `pixels` of draw: rows in order, columns 0..7 within a row,
\* flattened twice (the rows, then the Options).
glyph_pixels(offset, fore_color, back_color, glyph) ==
    LET cells == [n \in 1..96 |->
                     glyph_pixel(offset, fore_color, back_color,
                                 glyph[(n - 1) \div 8], (n - 1) \div 8, (n - 1) % 8)]
        present == SelectSeq(cells, IsSome)
    IN  [i \in 1..Len(present) |-> Unwrap(present[i])]

\* JisFont8x12::draw: one target.draw_iter(pixels) call, whose error is
\* returned unchanged.  `target_accepts` is what the target answers.
JisFont8x12_draw(target_accepts, offset, fore_color, back_color, glyph) ==
    [batches |-> <<glyph_pixels(offset, fore_color, back_color, glyph)>>,
     result  |-> IF target_accepts THEN "Ok" ELSE "Err"]

---------------------------------------------------------------------------
(* Painting one glyph as a state machine: any glyph, offset and colors,    *)
(* then one call of JisFont8x12::draw.                                     *)

\* Glyphs: every byte value as a glyph of 12 equal rows, and the glyphs of
\* 'A'..'E' in the patterned bitmap (12 different rows).
Glyphs ==
    {[r \in 0..11 |-> b] : b \in 0..255}
    \cup {fetch([len |-> JIS_KUTEN_WIDTH * JIS_KUTEN_WIDTH * 12, mul |-> 37],
                <<3, ten>>).glyph : ten \in 33..37}

Offsets == {<<0, 0>>, <<3, 5>>}
BackColors == {None, Some("back")}

GlyphInit ==
    /\ NoIoUnderTest
    /\ NoCacheUnderTest
    /\ NoTableUnderTest
    /\ NoFontUnderTest
    /\ layout = <<>>
    /\ target = <<>>
    /\ panicked = FALSE
    /\ call \in [op : {"glyph"}, glyph : Glyphs, offset : Offsets,
                 fore_color : {"fore"}, back_color : BackColors]

\* JisFont8x12::draw(target, offset, fore_color, back_color, glyph)
GlyphDraw(target_accepts) ==
    /\ call.op = "glyph"
    /\ LET d == JisFont8x12_draw(target_accepts, call.offset, call.fore_color,
                                 call.back_color, call.glyph)
       IN  /\ call' = [call EXCEPT !.op = "glyph_drawn"] @@ [result |-> d.result]
           /\ target' = d.batches
    /\ UNCHANGED <<cacheVars, panicked, pre, inserted, tableVars, fontVars, ioVars, layout>>

GlyphNext == \E target_accepts \in BOOLEAN : GlyphDraw(target_accepts)

SpecGlyph == GlyphInit /\ [][GlyphNext]_vars

---------------------------------------------------------------------------
(* Claims about painting a glyph, checked under SpecGlyph.                 *)

\* Bit k (0 = least significant) of byte b.
Bit(b, k) == (b \div (2 ^ k)) % 2

SetBits(glyph) == Cardinality({rx \in (0..11) \X (0..7) : Bit(glyph[rx[1]], 7 - rx[2]) = 1})

\* Position of a point in the row-major order of the glyph cell at offset.
RowMajorRank(offset, point) == (point[2] - offset[2]) * 8 + (point[1] - offset[1])

\* C10: draw emits, in row-major order in one batched call, for every row r
\* and column x a foreground pixel at (ox+x, oy+r) when bit (7-x) of byte r
\* is set; when it is clear, a background pixel there if a background color
\* was supplied and no pixel otherwise.  Without a background the number of
\* pixels is the number of set bits; with one it is 96.
C10_GlyphPixels ==
    call.op = "glyph_drawn" =>
        /\ Len(target) = 1
        /\ LET pixels == target[1]
               at(r, x) == <<call.offset[1] + x, call.offset[2] + r>>
           IN  /\ \A i, j \in 1..Len(pixels) :
                      i < j => RowMajorRank(call.offset, pixels[i].point)
                                 < RowMajorRank(call.offset, pixels[j].point)
               /\ \A r \in 0..11, x \in 0..7 :
                      IF Bit(call.glyph[r], 7 - x) = 1
                      THEN \E i \in 1..Len(pixels) :
                               pixels[i] = Pixel(at(r, x), call.fore_color)
                      ELSE IF call.back_color = None
                      THEN \A i \in 1..Len(pixels) : pixels[i].point # at(r, x)
                      ELSE \E i \in 1..Len(pixels) :
                               pixels[i] = Pixel(at(r, x), Unwrap(call.back_color))
               /\ Len(pixels) = IF call.back_color = None THEN SetBits(call.glyph) ELSE 96

\* A glyph with different rows, some bits set and some clear, painted
\* without a background at an offset other than the origin.
C10_Witness ==
    /\ call.op = "glyph_drawn"
    /\ call.back_color = None
    /\ call.offset = <<3, 5>>
    /\ call.glyph[0] # call.glyph[1]
    /\ Len(target[1]) > 0
    /\ Len(target[1]) < 96

---------------------------------------------------------------------------
(* JisText::draw and JisTextDirect::write_str (src/graphics/drawables.rs). *)
(*                                                                         *)
(* `layout` is the text object and the running call: mode ("draw" for a    *)
(* JisText, "write_str" for a JisTextDirect), offset, wrapping_width (0 is *)
(* None), the style's colors, relx / rely / chars_in_line / max_relx (the  *)
(* locals of draw, the fields of JisTextDirect), the lines still to lay    *)
(* out (`rest`, whose head is the rest of the current line), whether the   *)
(* font's RefCell is mutably borrowed, and the result of the last call.    *)
(* `target` lists the glyph draws the target accepted; first_draw,         *)
(* start_relx, first_call and font_at_start remember where the running     *)
(* call began: the first draw that is its own, its relx, whether it is the *)
(* first call on the text object, and the font's cache.  calls, written,   *)
(* font_at_first and clean are the history of the text object: how many    *)
(* calls were begun (counted up to MaxCalls), the texts of all of them in  *)
(* a row, the font's cache at the first, and whether the target accepted   *)
(* every glyph so far.                                                     *)

Max(a, b) == IF a >= b THEN a ELSE b

NewLine == 10

\* str::lines for a string without '\r': the pieces between '\n's, without
\* a last empty piece.
RECURSIVE Lines(_)
Lines(s) ==
    IF s = <<>> THEN <<>>
    ELSE IF \E i \in 1..Len(s) : s[i] = NewLine
    THEN LET i == CHOOSE i \in 1..Len(s) :
                      s[i] = NewLine /\ \A j \in 1..(i - 1) : s[j] # NewLine
         IN  <<SubSeq(s, 1, i - 1)>> \o Lines(SubSeq(s, i + 1, Len(s)))
    ELSE <<s>>

\* NonZeroUsize::new(width) as kept in wrapping_width: 0 is None.
HasWrapping(l) == l.wrapping_width # 0

\* JisTextStyle::new / with_background, JisText::new or JisTextDirect::new,
\* and with_wrapping(width).
NewText(mode, offset, width, fore_color, back_color) ==
    [mode |-> mode, offset |-> offset, wrapping_width |-> width,
     fore_color |-> fore_color, back_color |-> back_color,
     chars_in_line |-> 0, relx |-> 0, rely |-> 0, max_relx |-> 0,
     pc |-> "idle", text |-> <<>>, rest |-> <<>>, first_draw |-> 1, start_relx |-> 0,
     first_call |-> FALSE, font_at_start |-> <<>>,
     calls |-> 0, written |-> <<>>, font_at_first |-> <<>>, clean |-> TRUE,
     borrowed |-> FALSE, nested |-> FALSE, result |-> <<>>, budget |-> 0]

\* RefCell::borrow_mut on the font: panics ("already borrowed") while a
\* RefMut is alive, and otherwise hands out the RefMut.
borrow_mut(l) ==
    [panic |-> l.borrowed, layout |-> [l EXCEPT !.borrowed = TRUE]]

\* The start of a call once `self.style.font.borrow_mut()` has returned: the
\* locals of draw set to 0 (write_str goes on from the fields), and
\* `s.lines()`.
begin_call(l, s) ==
    LET held == borrow_mut(l).layout
        fresh == IF l.mode = "draw"
                 THEN [held EXCEPT !.relx = 0, !.rely = 0, !.chars_in_line = 0,
                                   !.max_relx = 0]
                 ELSE held
    IN  [fresh EXCEPT !.pc = "running", !.text = s, !.rest = Lines(s),
                      !.start_relx = fresh.relx,
                      !.result = <<>>]

\* `Point::new(self.offset.x + relx, self.offset.y + rely)`
char_offset(l) == <<l.offset[1] + l.relx, l.offset[2] + l.rely>>

\* A step whose streaming copy wraps one glyph later than the other copy
\* (`>` for `>=`).
glyph_drawn_streaming_wraps_late(l) ==
    LET relx == l.relx + WIDTH
        chars_in_line == l.chars_in_line + 1
        full == IF l.mode = "draw" THEN chars_in_line >= l.wrapping_width
                ELSE chars_in_line > l.wrapping_width
    IN  IF ~HasWrapping(l) THEN [l EXCEPT !.relx = relx]
        ELSE IF full
        THEN [l EXCEPT !.max_relx = IF l.mode = "draw" THEN Max(l.max_relx, relx)
                                    ELSE l.max_relx,
                       !.relx = 0, !.rely = l.rely + HEIGHT, !.chars_in_line = 0]
        ELSE [l EXCEPT !.relx = relx, !.chars_in_line = chars_in_line]

\* A step whose line wrapping leaves relx where it is.
glyph_drawn_wrap_keeps_relx(l) ==
    LET relx == l.relx + WIDTH
        chars_in_line == l.chars_in_line + 1
    IN  IF ~HasWrapping(l) THEN [l EXCEPT !.relx = relx]
        ELSE IF chars_in_line >= l.wrapping_width
        THEN [l EXCEPT !.max_relx = IF l.mode = "draw" THEN Max(l.max_relx, relx)
                                    ELSE l.max_relx,
                       !.relx = relx, !.rely = l.rely + HEIGHT, !.chars_in_line = 0]
        ELSE [l EXCEPT !.relx = relx, !.chars_in_line = chars_in_line]

\* After I::draw returned Ok: `relx += I::WIDTH`, then the line wrapping.
glyph_drawn(l) ==
    LET relx == l.relx + WIDTH
    IN  IF HasWrapping(l)
        THEN LET chars_in_line == l.chars_in_line + 1
             IN  IF chars_in_line >= l.wrapping_width
                 THEN [l EXCEPT !.max_relx = IF l.mode = "draw"
                                              THEN Max(l.max_relx, relx)
                                              ELSE l.max_relx,
                                !.relx = 0,
                                !.rely = l.rely + HEIGHT,
                                !.chars_in_line = 0]
                 ELSE [l EXCEPT !.relx = relx, !.chars_in_line = chars_in_line]
        ELSE [l EXCEPT !.relx = relx]

\* The end of the body of `for line in lines`.
line_ended(l) ==
    [l EXCEPT !.max_relx = IF l.mode = "draw" THEN Max(l.max_relx, l.relx)
                           ELSE l.max_relx,
              !.relx = 0,
              !.rely = l.rely + HEIGHT,
              !.chars_in_line = 0,
              !.rest = Tail(l.rest)]

\* The next character is taken from the current line.
char_taken(l) == [l EXCEPT !.rest = <<Tail(Head(l.rest))>> \o Tail(l.rest)]

\* A result that is an error.
IsErr(result) == result # <<>> /\ result[1] = "Err"

\* A return that reports the formatting error in both modes.
returned_with_fmt_error(l, outcome) ==
    [l EXCEPT !.pc = "returned", !.borrowed = FALSE,
              !.result = IF IsErr(outcome) THEN <<"Err", "FmtError">>
                         ELSE IF l.mode = "draw" THEN <<"Ok", <<l.max_relx, l.rely>>>>
                         ELSE <<"Ok">>]

\* The call returns (the RefMut is dropped).  `outcome` is <<"Ok">> at the
\* end of the text and <<"Err", e>> when I::draw returned the target's
\* error e: draw hands it on with `?`, write_str replaces it with
\* `.map_err(|_| FmtError)?`.  Ok is Ok((max_relx, rely)) from draw and
\* Ok(()) from write_str.
returned(l, outcome) ==
    [l EXCEPT !.pc = "returned", !.borrowed = FALSE,
              !.result = IF IsErr(outcome)
                         THEN IF l.mode = "draw" THEN outcome
                              ELSE <<"Err", "FmtError">>
                         ELSE IF l.mode = "draw" THEN <<"Ok", <<l.max_relx, l.rely>>>>
                         ELSE <<"Ok">>]

---------------------------------------------------------------------------
(* Drawing text as a state machine: a font, a style and a text object,     *)
(* then calls of draw (or write_str), each running character by character. *)

MaxText == 3     \* the calls of a run lay out up to MaxText characters
MaxWrap == 2     \* wrapping widths 0 (none) .. MaxWrap
MaxCalls == 3    \* layout.calls counts the calls up to MaxCalls

\* 'A', 'B' (mapped), U+10FFFF (not mapped) and '\n'.
TextChars == {65, 66, 1114111, NewLine}

Texts == UNION {[1..n -> TextChars] : n \in 0..MaxText}

\* "AB\nCDE"
ExampleText == <<65, 66, NewLine, 67, 68, 69>>

\* CACHE_SIZE of the font: one the example text overflows, one it does not.
DrawCapacities == {2, 8}

TextOffset == <<3, 5>>

\* 'C', a mapped character the font may have been asked for before.
WarmChar == 67

\* The errors of the target (D::Error).
TargetErrors == {"e1", "e2"}

\* What the target does with a glyph: accept it, fail with one of its
\* errors, or start a drawing call on the same font ("reenter"), which
\* begins with that call's borrow_mut.
TargetBehaviours == {"accept", "reenter"} \cup TargetErrors

DrawInit ==
    /\ NoIoUnderTest
    /\ FontConstructed(DrawCapacities)
    /\ font_bitmap.mul = 37
    /\ \E mode \in {"draw", "write_str"}, width \in 0..MaxWrap :
           layout = [NewText(mode, TextOffset, width, "fore", Some("back"))
                         EXCEPT !.budget = MaxText]
    /\ target = <<>>

\* text.draw(&mut target) / write!(direct, "{}", s) is called.
BeginCall(s) ==
    /\ ~panicked
    /\ layout.pc # "running"
    /\ \/ Len(s) <= layout.budget
       \/ s = ExampleText /\ layout.pc = "idle"
    /\ IF borrow_mut(layout).panic
       THEN /\ panicked' = TRUE
            /\ UNCHANGED layout
       ELSE /\ layout' = [begin_call(layout, s) EXCEPT
                              !.budget = Max(0, layout.budget - Len(s)),
                              !.first_draw = Len(target) + 1,
                              !.first_call = (layout.pc = "idle"),
                              !.font_at_start = Cache,
                              !.calls = Min(layout.calls + 1, MaxCalls),
                              !.written = layout.written \o s,
                              !.font_at_first = IF layout.pc = "idle" THEN Cache
                                                ELSE layout.font_at_first]
            /\ UNCHANGED panicked
    /\ call' = [op |-> "begin", key |-> 0, ret |-> None]
    /\ UNCHANGED <<cacheVars, pre, inserted, tableVars, fontVars, ioVars, target>>

\* One round of `for draw_char in line.chars()`.
StepChar(target_does) ==
    /\ ~panicked
    /\ layout.pc = "running"
    /\ layout.rest # <<>>
    /\ Head(layout.rest) # <<>>
    /\ LET draw_char == Head(Head(layout.rest))
           q == JisFont_query(Cache, font_bitmap, table_bytes, table[1].table, build,
                              draw_char)
           taken == char_taken(layout)
           before == [relx |-> layout.relx, rely |-> layout.rely,
                      chars_in_line |-> layout.chars_in_line, draws |-> Len(target)]
       IN  /\ SetCache(q.cache)
           /\ inserted' = inserted \o q.puts
           /\ pre' = Cache
           /\ call' = [op |-> "step", key |-> draw_char, ret |-> q.ret,
                       before |-> before,
                       target_does |-> IF q.panic \/ q.ret = None THEN "nothing"
                                       ELSE target_does]
           /\ IF q.panic
              THEN /\ panicked' = TRUE
                   /\ UNCHANGED <<layout, target>>
              ELSE IF q.ret = None
              THEN /\ layout' = taken
                   /\ UNCHANGED <<panicked, target>>
              ELSE CASE target_does = "accept" ->
                            /\ target' = Append(target,
                                   [offset |-> char_offset(layout),
                                    fore_color |-> layout.fore_color,
                                    back_color |-> layout.back_color,
                                    glyph |-> Unwrap(q.ret)])
                            /\ layout' = glyph_drawn(taken)
                            /\ UNCHANGED panicked
                     [] target_does \in TargetErrors ->
                            /\ layout' = [returned(taken, <<"Err", target_does>>)
                                              EXCEPT !.clean = FALSE]
                            /\ UNCHANGED <<panicked, target>>
                     [] OTHER ->
                            /\ layout' = [layout EXCEPT !.nested = TRUE, !.clean = FALSE]
                            /\ panicked' = borrow_mut(layout).panic
                            /\ UNCHANGED target
    /\ UNCHANGED <<SIZE, tableVars, fontVars, ioVars>>

\* The current line has no character left.
EndLine ==
    /\ ~panicked
    /\ layout.pc = "running"
    /\ layout.rest # <<>>
    /\ Head(layout.rest) = <<>>
    /\ layout' = line_ended(layout)
    /\ call' = [op |-> "end_line", key |-> 0, ret |-> None]
    /\ UNCHANGED <<cacheVars, panicked, pre, inserted, tableVars, fontVars, ioVars, target>>

\* No line is left: the call returns Ok.
Return ==
    /\ ~panicked
    /\ layout.pc = "running"
    /\ layout.rest = <<>>
    /\ layout' = returned(layout, <<"Ok">>)
    /\ call' = [op |-> "return", key |-> 0, ret |-> None]
    /\ UNCHANGED <<cacheVars, panicked, pre, inserted, tableVars, fontVars, ioVars, target>>

\* The font is used before the text is drawn: font.borrow_mut().query('C').
QueryBeforeDrawing ==
    /\ layout.pc = "idle"
    /\ FontQuery(WarmChar)
    /\ UNCHANGED drawVars

DrawNext ==
    \/ QueryBeforeDrawing
    \/ \E s \in Texts \cup {ExampleText} : BeginCall(s)
    \/ \E target_does \in TargetBehaviours : StepChar(target_does)
    \/ EndLine
    \/ Return

SpecDraw == DrawInit /\ [][DrawNext]_vars

---------------------------------------------------------------------------
(* Claims about the text layout.                                           *)

\* The mapped characters of a line, the only ones that are drawn.
MappedCount(line) == Len(SelectSeq(line, LAMBDA c : c \in MappedChars))

\* Vertical advances of a list of lines: one at the end of every line and
\* one each time the wrap counter reaches the wrap width.
RECURSIVE VerticalAdvances(_, _)
VerticalAdvances(lines, width) ==
    IF lines = <<>> THEN 0
    ELSE 1 + (IF width = 0 THEN 0 ELSE MappedCount(Head(lines)) \div width)
           + VerticalAdvances(Tail(lines), width)

\* The most glyphs side by side before relx is reset.
RECURSIVE WidestRun(_, _)
WidestRun(lines, width) ==
    IF lines = <<>> THEN 0
    ELSE Max(IF width = 0 THEN MappedCount(Head(lines))
             ELSE Min(MappedCount(Head(lines)), width),
             WidestRun(Tail(lines), width))

BoundingBox(s, width) ==
    <<WIDTH * WidestRun(Lines(s), width), HEIGHT * VerticalAdvances(Lines(s), width)>>

\* A call has begun, the target has accepted every glyph so far and has not
\* called back into the font.
CallUndisturbed ==
    /\ layout # <<>>
    /\ layout.pc # "idle"
    /\ ~layout.nested
    /\ ~IsErr(layout.result)

\* What a returned draw reports is the bounding box, and the two boxes the
\* example "AB\nCDE" is said to give.
ReturnedBoxIsBoundingBox ==
    (layout.pc = "returned" /\ layout.mode = "draw") =>
        /\ layout.result = <<"Ok", BoundingBox(layout.text, layout.wrapping_width)>>
        /\ (layout.text = ExampleText /\ layout.wrapping_width = 0) =>
               layout.result[2] = <<24, 24>>
        /\ (layout.text = ExampleText /\ layout.wrapping_width = 2) =>
               layout.result[2][2] = 48

\* C8: a bounding-box draw with the 8x12 glyph format returns (max relx
\* reached before any reset, 12 * number of vertical advances), a vertical
\* advance happening at the end of every input line and each time the wrap
\* counter reaches the wrap width; "AB\nCDE" gives (24, 24) without a wrap
\* width and height 48 with wrap width 2.  Fails: the draw does not return
\* when a glyph has to be put into a cache that has taken CACHE_SIZE puts.
C8_DrawReturnsBoundingBox ==
    (CallUndisturbed /\ layout.mode = "draw") =>
        /\ ~panicked
        /\ ReturnedBoxIsBoundingBox

\* What remains of C8: a draw that returns Ok returns the bounding box.
DrawReturnsBoundingBoxUnlessItPanics ==
    (CallUndisturbed /\ layout.mode = "draw") => ReturnedBoxIsBoundingBox

\* The example of C8 does return, with (24, 24), from a font whose cache
\* has room for its five glyphs.
ExampleReturned ==
    /\ layout # <<>>
    /\ layout.mode = "draw"
    /\ layout.pc = "returned"
    /\ layout.text = ExampleText
    /\ layout.wrapping_width = 0
    /\ layout.result = <<"Ok", <<24, 24>>>>

\* A drawing call panics only on the put into a full cache or on the nested
\* borrow.
DrawPanicsOnlyWhenCacheIsFull ==
    (layout # <<>> /\ panicked /\ ~layout.nested) => cursor = SIZE

\* The glyph draws of the running (or last) call, as relx values.
DrawsOfCall ==
    [i \in 1..(Len(target) + 1 - layout.first_draw) |->
        target[layout.first_draw + i - 1].offset[1] - layout.offset[1]]

\* Two mapped characters separated by one unmapped character.
TwoMappedAroundUnmapped(s) ==
    /\ Len(s) = 3
    /\ s[1] \in MappedChars
    /\ s[2] \notin MappedChars \cup {NewLine}
    /\ s[3] \in MappedChars

\* A round of the loop whose font query yielded None.
SkippedChar ==
    /\ layout # <<>>
    /\ call.op = "step"
    /\ ~panicked
    /\ call.ret = None

\* The skip itself: no draw, relx, rely and the wrap counter as before, and
\* a drawn glyph is at offset + (relx, rely) of the round that drew it.
SkipLeavesThePosition ==
    /\ SkippedChar =>
           /\ Len(target) = call.before.draws
           /\ layout.relx = call.before.relx
           /\ layout.rely = call.before.rely
           /\ layout.chars_in_line = call.before.chars_in_line
    /\ (layout # <<>> /\ call.op = "step" /\ call.target_does = "accept") =>
           /\ Len(target) = call.before.draws + 1
           /\ target[Len(target)].offset =
                  <<layout.offset[1] + call.before.relx,
                    layout.offset[2] + call.before.rely>>

\* C9: in both drawing modes a character for which the font query yields
\* None is skipped: no draw is issued, relx, rely and the wrap counter are
\* unchanged, and the next mapped character is drawn where the skipped one
\* would have been; a string of two mapped characters separated by one
\* unmapped character, laid out from relx 0, produces exactly two glyph
\* draws, at relx 0 and relx WIDTH.  Fails: the second draw never happens
\* when its glyph has to be put into a full cache, and with wrap width 1 it
\* is at relx 0.
C9_UnmappedCharIsSkipped ==
    /\ SkipLeavesThePosition
    /\ (CallUndisturbed /\ TwoMappedAroundUnmapped(layout.text)
            /\ layout.start_relx = 0) =>
           /\ ~panicked
           /\ layout.pc = "returned" => DrawsOfCall = <<0, WIDTH>>

\* What remains of C9 without a wrap width of 1: the skip, and the two draws
\* of a call that returns.
SkipHoldsUnlessItPanics ==
    /\ SkipLeavesThePosition
    /\ (CallUndisturbed /\ TwoMappedAroundUnmapped(layout.text)
            /\ layout.start_relx = 0 /\ layout.wrapping_width # 1
            /\ layout.pc = "returned") =>
           DrawsOfCall = <<0, WIDTH>>

\* With wrap width 1 the second glyph is on the next row at relx 0.
WrapOneReturned ==
    /\ layout # <<>>
    /\ layout.pc = "returned"
    /\ ~IsErr(layout.result)
    /\ TwoMappedAroundUnmapped(layout.text)
    /\ layout.start_relx = 0
    /\ layout.wrapping_width = 1
    /\ DrawsOfCall = <<0, 0>>

\* The string of C9 on a font whose cache is full: the call panics.
SkipStringPanicked ==
    /\ CallUndisturbed
    /\ TwoMappedAroundUnmapped(layout.text)
    /\ layout.wrapping_width = 0
    /\ panicked

---------------------------------------------------------------------------
(* Fetching glyphs from a bitmap: JisFont8x12::validate_bitmap and fetch.  *)

\* A bitmap of the length validate_bitmap accepts, and one a glyph shorter.
FetchBitmaps ==
    {[len |-> JIS_KUTEN_WIDTH * JIS_KUTEN_WIDTH * 12 - short, mul |-> 37] :
        short \in {0, 12}}

\* (ku, ten) as the table may hold them: 1..94, and 0 and 95 around them.
Kutens == (0..(JIS_KUTEN_WIDTH + 1)) \X (0..(JIS_KUTEN_WIDTH + 1))

FetchInit ==
    /\ NoIoUnderTest
    /\ NoCacheUnderTest
    /\ NoTableUnderTest
    /\ NoTextUnderTest
    /\ font_bitmap \in FetchBitmaps
    /\ panicked = FALSE
    /\ call = [op |-> "none"]

\* I::fetch(bitmap, kuten)
Fetch(kuten) ==
    /\ call.op = "none"
    /\ LET f == fetch(font_bitmap, kuten)
       IN  /\ call' = [op |-> "fetch", kuten |-> kuten, glyph |-> f.glyph,
                       range |-> f.range]
           /\ panicked' = f.panic
    /\ UNCHANGED <<cacheVars, pre, inserted, tableVars, fontVars, ioVars, drawVars>>

FetchNext == \E kuten \in Kutens : Fetch(kuten)

SpecFetch == FetchInit /\ [][FetchNext]_vars

---------------------------------------------------------------------------
(* Claims about fetch, checked under SpecFetch.                            *)

ValidKutens == (1..JIS_KUTEN_WIDTH) \X (1..JIS_KUTEN_WIDTH)

\* The range the claim names for (ku, ten).
GlyphRange(kuten) ==
    LET from == ((kuten[1] - 1) * 94 + (kuten[2] - 1)) * 12
    IN  <<from, from + 12>>

Disjoint(r1, r2) == r1[2] <= r2[1] \/ r2[2] <= r1[1]

\* A fetch of a valid kuten from an accepted bitmap has been made.
ValidFetch ==
    /\ call.op = "fetch"
    /\ validate_bitmap(font_bitmap)
    /\ call.kuten \in ValidKutens

\* `other` comes after `kuten` in the order by ku, then ten.  Of two
\* distinct kuten one comes after the other.
Later(kuten, other) ==
    \/ other[1] > kuten[1]
    \/ other[1] = kuten[1] /\ other[2] > kuten[2]

\* C11: for a bitmap accepted by validate_bitmap and ku, ten in 1..94, fetch
\* returns the 12 bytes at [((ku-1)*94+(ten-1))*12, +12), a range inside the
\* bitmap; (1,1) reads the first 12 bytes, (94,94) the last 12, and distinct
\* kuten read disjoint ranges.  The range of every valid kuten is the one
\* its own fetch reads (second conjunct, in the state where it is fetched),
\* and each pair of distinct kuten is compared once, in the state where the
\* earlier of the two is fetched.
C11_FetchReadsTheGlyphRange ==
    ValidFetch =>
        /\ ~panicked
        /\ call.range = GlyphRange(call.kuten)
        /\ 0 <= call.range[1] /\ call.range[2] <= font_bitmap.len
        /\ \A r \in 0..11 : call.glyph[r] = BitmapByte(font_bitmap, call.range[1] + r)
        /\ call.kuten = <<1, 1>> => call.range = <<0, 12>>
        /\ call.kuten = <<94, 94>> =>
               call.range = <<font_bitmap.len - 12, font_bitmap.len>>
        /\ \A ku \in call.kuten[1]..JIS_KUTEN_WIDTH, ten \in 1..JIS_KUTEN_WIDTH :
               Later(call.kuten, <<ku, ten>>) =>
                   Disjoint(call.range, GlyphRange(<<ku, ten>>))

C11_Witness ==
    /\ ValidFetch
    /\ call.kuten = <<94, 94>>
    /\ ~panicked
    /\ call.range[2] = font_bitmap.len
    /\ font_bitmap.mul = 37


\* The last call ended because the target failed on a glyph.
FailedGlyph == layout # <<>> /\ IsErr(layout.result)

\* The characters of the text that had not been reached.
Unreached == IF layout.rest = <<>> THEN <<>>
             ELSE Head(layout.rest) \o
                  (IF Len(layout.rest) > 1 THEN layout.rest[2] ELSE <<>>)

\* C12: when the target fails while a glyph is painted the call stops at
\* once: it has returned, no glyph draw was added for the failed glyph or
\* for any later character, the result is the target's own error in
\* bounding-box mode and the formatting error in streaming mode, and relx,
\* rely and the wrap counter are those before the failed glyph.
C12_TargetFailureStopsTheCall ==
    FailedGlyph =>
        /\ layout.pc = "returned"
        /\ call.op = "step"
        /\ call.target_does \in TargetErrors
        /\ Len(target) = call.before.draws
        /\ layout.result = IF layout.mode = "draw"
                           THEN <<"Err", call.target_does>>
                           ELSE <<"Err", "FmtError">>
        /\ layout.relx = call.before.relx
        /\ layout.rely = call.before.rely
        /\ layout.chars_in_line = call.before.chars_in_line

\* A streaming call failed on its second glyph with a mapped character
\* still to come.
C12_Witness ==
    /\ FailedGlyph
    /\ layout.mode = "write_str"
    /\ call.before.relx = WIDTH
    /\ call.before.draws = 1
    /\ \E i \in 1..Len(Unreached) : Unreached[i] \in MappedChars

\* The same in bounding-box mode, with the second of the target's errors.
DrawFailedWithTargetError ==
    /\ FailedGlyph
    /\ layout.mode = "draw"
    /\ layout.result = <<"Err", "e2">>
    /\ \E i \in 1..Len(Unreached) : Unreached[i] \in MappedChars


\* The cache as the running call's own query left it in the last round.
CacheAfterOwnQuery ==
    JisFont_query(pre, font_bitmap, table_bytes, table[1].table, build, call.key).cache

\* Exclusive access: held while a call runs, refused to a call that starts
\* meanwhile, which panics and leaves the cache as the running call's query
\* left it, and released at the return, with Ok or with an error.
ExclusiveAccess ==
    layout # <<>> =>
        /\ layout.pc = "running" => layout.borrowed
        /\ layout.nested =>
               /\ panicked
               /\ call.op = "step"
               /\ Cache = CacheAfterOwnQuery
        /\ layout.pc = "returned" => ~layout.borrowed
        /\ (panicked /\ call.op = "begin") => FALSE

\* C13: a drawing call holds exclusive access to its font's cache from its
\* start to its return; a second drawing call on the same font that starts
\* while one is live fails as a fatal contract violation without touching
\* the cache; access is released at the return, with success or with an
\* error, so sequential drawing calls sharing one font all succeed.  Fails:
\* a sequential call panics when it needs a glyph put into a cache that has
\* taken CACHE_SIZE puts.
C13_ExclusiveAccessAndSequentialCalls ==
    /\ ExclusiveAccess
    /\ (layout # <<>> /\ ~layout.nested) => ~panicked

\* What remains of C13: the borrow is never what fails a sequential call.
SequentialCallsFailOnlyOnAFullCache ==
    /\ ExclusiveAccess
    /\ (layout # <<>> /\ panicked /\ ~layout.nested) =>
           /\ call.op \in {"step", "font_query"}
           /\ cursor = SIZE

\* A call started from inside a running call, and panicked.
NestedCallPanicked ==
    /\ layout # <<>>
    /\ layout.nested
    /\ panicked
    /\ Len(inserted) > 0

\* A call has begun after a call that returned an error.
CallAfterFailedCall ==
    /\ layout # <<>>
    /\ layout.pc = "running"
    /\ layout.borrowed
    /\ ~panicked
    /\ layout.budget < MaxText - 1
    /\ Len(target) = 0
    /\ Len(inserted) > 0


---------------------------------------------------------------------------
(* A whole call on an accepting target, as one function of the text object *)
(* and the font's cache: the rounds of StepChar, EndLine and Return in the *)
(* order of the loops.  It is what the other mode, or another split of the *)
(* text, would have done from the same start.                              *)

GlyphDrawAt(l, glyph) ==
    [offset |-> char_offset(l), fore_color |-> l.fore_color,
     back_color |-> l.back_color, glyph |-> glyph]

RECURSIVE RunCall(_, _, _)
RunCall(l, c, drawn) ==
    IF l.rest = <<>>
    THEN [layout |-> returned(l, <<"Ok">>), cache |-> c, drawn |-> drawn,
          panic |-> FALSE]
    ELSE IF Head(l.rest) = <<>>
    THEN RunCall(line_ended(l), c, drawn)
    ELSE LET q == JisFont_query(c, font_bitmap, table_bytes, table[1].table, build,
                                Head(Head(l.rest)))
         IN  IF q.panic
             THEN [layout |-> l, cache |-> q.cache, drawn |-> drawn, panic |-> TRUE]
             ELSE IF q.ret = None
             THEN RunCall(char_taken(l), q.cache, drawn)
             ELSE RunCall(glyph_drawn(char_taken(l)), q.cache,
                          Append(drawn, GlyphDrawAt(l, Unwrap(q.ret))))

\* text.draw(target) of a JisText with the running text object's origin,
\* style and wrap width, on a font in the state the running call found.
DrawOfSameText ==
    RunCall(begin_call(NewText("draw", layout.offset, layout.wrapping_width,
                               layout.fore_color, layout.back_color),
                       layout.text),
            layout.font_at_start, <<>>)

\* The glyph draws of the running (or last) call.
DrawnByCall == SubSeq(target, layout.first_draw, Len(target))

IsPrefix(s, t) == Len(s) <= Len(t) /\ s = SubSeq(t, 1, Len(s))

\* The first write_str on a JisTextDirect, on a target that accepts.
FirstWrite ==
    /\ CallUndisturbed
    /\ layout.mode = "write_str"
    /\ layout.first_call

\* C14: one write_str(s) on a freshly constructed JisTextDirect issues the
\* same sequence of glyph draws (glyph, pixel offset, colors) as
\* JisText::draw of s with the same origin, style and wrap width, and the
\* streaming rely after the call equals the height draw returns.  While the
\* call runs its draws are the first of draw's; when it has returned they
\* are all of them and draw returns Ok too; when it panics, so does draw,
\* after the same draws.
C14_WriteStrDrawsWhatDrawDraws ==
    FirstWrite =>
        LET d == DrawOfSameText
        IN  /\ IsPrefix(DrawnByCall, d.drawn)
            /\ layout.pc = "returned" =>
                   /\ DrawnByCall = d.drawn
                   /\ ~d.panic
                   /\ d.layout.result = <<"Ok", <<d.layout.max_relx, layout.rely>>>>
                   /\ layout.result = <<"Ok">>
            /\ panicked => d.panic /\ DrawnByCall = d.drawn

\* A first write_str of a text of two rows of glyphs has returned.
C14_Witness ==
    /\ FirstWrite
    /\ layout.pc = "returned"
    /\ Len(DrawnByCall) >= 2
    /\ layout.rely >= 2 * HEIGHT
    /\ DrawOfSameText.layout.result[2][2] = layout.rely
    /\ DrawOfSameText.layout.result[2][1] > 0

---------------------------------------------------------------------------
(* LineWriter (src/io.rs): a buffer of BUFFER_SIZE bytes, the length `size`*)
(* of the line in it and the count `written` of its bytes already written. *)
(* The buffer is a function 0..BUFFER_SIZE-1 -> byte; bytes past `size`    *)
(* are whatever earlier lines left there.                                  *)

BUFFER_SIZE == 2    \* const generic BUFFER_SIZE of the reader and the writer
MaxPacket == 3      \* byte slices handed to the calls have up to MaxPacket bytes

\* `&mut self.buffer[from..to]` followed by copy_from_slice(bytes).
copy_into(buffer, from, bytes) ==
    [i \in DOMAIN buffer |->
        IF from <= i /\ i < from + Len(bytes) THEN bytes[i - from + 1] ELSE buffer[i]]

\* LineWriter::new
LineWriter_new == [buffer |-> [i \in 0..(BUFFER_SIZE - 1) |-> 0], size |-> 0, written |-> 0]

\* LineWriter::is_completed
is_completed(w) == w.written >= w.size

\* LineWriter::is_writing
is_writing(w) == w.written # 0

\* LineWriter::abort
abort(w) == [w EXCEPT !.size = 0, !.written = 0]

\* LineWriter::clear
clear(w) == IF is_writing(w) /\ ~is_completed(w) THEN w ELSE abort(w)

\* LineWriter::set_line
set_line(w, bytes) ==
    LET length == Len(bytes)
    IN  IF length > BUFFER_SIZE \/ (is_writing(w) /\ ~is_completed(w))
        THEN w
        ELSE [buffer |-> copy_into(w.buffer, 0, bytes), size |-> length, written |-> 0]

\* An append that overwrites the line from its start.
append_from_start(w, bytes) ==
    LET length == Len(bytes)
        buffer_left == BUFFER_SIZE - w.size
    IN  IF is_writing(w) \/ length > buffer_left
        THEN w
        ELSE [w EXCEPT !.buffer = copy_into(w.buffer, 0, bytes),
                       !.size = w.size + length]

\* LineWriter::append
append(w, bytes) ==
    LET length == Len(bytes)
        buffer_left == BUFFER_SIZE - w.size
    IN  IF is_writing(w) \/ length > buffer_left
        THEN w
        ELSE [w EXCEPT !.buffer = copy_into(w.buffer, w.size, bytes),
                       !.size = w.size + length]

\* A slice of the right length taken from the start of the buffer.
left_bytes_from_start(w) == [i \in 1..(w.size - w.written) |-> w.buffer[i - 1]]

\* `&self.buffer[(self.written)..(self.size)]`
left_bytes(w) == [i \in 1..(w.size - w.written) |-> w.buffer[w.written + i - 1]]

\* LineWriter::poll_write: write_func answers <<"Ok", n>> or <<"Err">>.
poll_write(w, answer) ==
    IF is_completed(w) THEN [writer |-> w, ret |-> <<"Ok", 0>>, offered |-> None]
    ELSE IF answer[1] = "Err"
    THEN [writer |-> w, ret |-> answer, offered |-> Some(left_bytes(w))]
    ELSE [writer |-> [w EXCEPT !.written = w.written + answer[2]],
          ret |-> answer, offered |-> Some(left_bytes(w))]

---------------------------------------------------------------------------
(* The writer as a state machine: any of its calls, with any bytes.        *)

DataBytes == {97, 98}

BytesUpTo(alphabet, n) == UNION {[1..k -> alphabet] : k \in 0..n}

WriterInit ==
    /\ NoCacheUnderTest
    /\ NoTableUnderTest
    /\ NoFontUnderTest
    /\ NoTextUnderTest
    /\ reader = <<>>
    /\ writer = LineWriter_new
    /\ panicked = FALSE
    /\ call = [op |-> "none"]

WriterFrame == UNCHANGED <<cacheVars, panicked, pre, inserted, tableVars, fontVars,
                           drawVars, reader>>

\* writer.set_line(bytes)
SetLine(bytes) ==
    /\ writer' = set_line(writer, bytes)
    /\ call' = [op |-> "set_line", bytes |-> bytes, before |-> writer]
    /\ WriterFrame

\* writer.append(bytes)
Append_(bytes) ==
    /\ writer' = append(writer, bytes)
    /\ call' = [op |-> "append", bytes |-> bytes, before |-> writer]
    /\ WriterFrame

\* writer.poll_write(write_func): write_func reports up to one byte more
\* than it was offered, or fails.
PollWrite(answer) ==
    /\ answer[1] = "Ok" => answer[2] <= writer.size - writer.written + 1
    /\ LET r == poll_write(writer, answer)
       IN  /\ writer' = r.writer
           /\ call' = [op |-> "poll_write", bytes |-> <<>>, before |-> writer,
                       ret |-> r.ret, offered |-> r.offered]
    /\ WriterFrame

\* writer.clear()
Clear ==
    /\ writer' = clear(writer)
    /\ call' = [op |-> "clear", bytes |-> <<>>, before |-> writer]
    /\ WriterFrame

\* writer.abort()
Abort ==
    /\ writer' = abort(writer)
    /\ call' = [op |-> "abort", bytes |-> <<>>, before |-> writer]
    /\ WriterFrame

WriterNext ==
    \/ \E bytes \in BytesUpTo(DataBytes, MaxPacket) : SetLine(bytes)
    \/ \E bytes \in BytesUpTo(DataBytes, MaxPacket) : Append_(bytes)
    \/ \E n \in 0..(BUFFER_SIZE + 1) : PollWrite(<<"Ok", n>>)
    \/ PollWrite(<<"Err">>)
    \/ Clear
    \/ Abort

SpecWriter == WriterInit /\ [][WriterNext]_vars


---------------------------------------------------------------------------
(* Claims about the writer, checked under SpecWriter.                      *)

\* The first n bytes of a buffer, as a sequence.
Line(buffer, n) == [i \in 1..n |-> buffer[i - 1]]

\* The writer holds exactly `bytes` as a line of which nothing is written,
\* and the rest of the buffer is as it was in `before`.
LineReplaced(before, bytes) ==
    /\ writer.size = Len(bytes)
    /\ writer.written = 0
    /\ Line(writer.buffer, writer.size) = bytes
    /\ \A i \in DOMAIN writer.buffer : i >= Len(bytes) => writer.buffer[i] = before.buffer[i]

\* C15: set_line replaces the buffered line only if the previous line was
\* written completely (written >= size); in every other state, and whenever
\* the new line is longer than BUFFER_SIZE, buffer, size and written are
\* unchanged; when it takes effect size is the new length and written is 0.
\* Fails: a line of which no byte has been written is replaced as well.
C15_SetLineOnlyWhenCompleted ==
    call.op = "set_line" =>
        IF call.before.written >= call.before.size /\ Len(call.bytes) <= BUFFER_SIZE
        THEN LineReplaced(call.before, call.bytes)
        ELSE writer = call.before

\* What set_line does: it is refused only while a line is partly written
\* (0 < written < size) or when the new line does not fit.
SetLineUnlessPartlyWritten ==
    call.op = "set_line" =>
        IF (call.before.written = 0 \/ call.before.written >= call.before.size)
               /\ Len(call.bytes) <= BUFFER_SIZE
        THEN LineReplaced(call.before, call.bytes)
        ELSE writer = call.before

\* A line was set over a line of which nothing had been written.
UnwrittenLineReplaced ==
    /\ call.op = "set_line"
    /\ call.before.size > 0
    /\ call.before.written = 0
    /\ Len(call.bytes) > 0
    /\ Line(writer.buffer, writer.size) = call.bytes
    /\ Line(call.before.buffer, call.before.size) # call.bytes

\* A set_line was refused while a line was partly written, and one because
\* the line was too long.
SetLineRefused ==
    /\ call.op = "set_line"
    /\ writer = call.before
    /\ \/ 0 < call.before.written /\ call.before.written < call.before.size
             /\ Len(call.bytes) <= BUFFER_SIZE
       \/ Len(call.bytes) > BUFFER_SIZE /\ call.before.written >= call.before.size


\* The line never outgrows the buffer, so `BUFFER_SIZE - self.size` in
\* append does not underflow.
LineFitsTheBuffer == writer # <<>> => writer.size <= BUFFER_SIZE

\* C16: append takes effect only if no byte of the current line has been
\* written (written = 0) and the bytes fit (len <= BUFFER_SIZE - size): then
\* size grows by exactly len, the earlier bytes are kept (the new ones
\* follow them) and written stays 0; otherwise buffer, size and written are
\* unchanged.
C16_AppendOnlyBeforeWriting ==
    call.op = "append" =>
        LET before == call.before
            len == Len(call.bytes)
        IN  IF before.written = 0 /\ len <= BUFFER_SIZE - before.size
            THEN /\ writer.size = before.size + len
                 /\ writer.written = 0
                 /\ Line(writer.buffer, before.size) = Line(before.buffer, before.size)
                 /\ \A i \in 1..len : writer.buffer[before.size + i - 1] = call.bytes[i]
                 /\ \A i \in DOMAIN writer.buffer :
                        i >= before.size + len => writer.buffer[i] = before.buffer[i]
            ELSE writer = before

\* A byte was appended to a line of one other byte.
C16_Witness ==
    /\ call.op = "append"
    /\ call.before.size = 1
    /\ call.before.written = 0
    /\ Len(call.bytes) = 1
    /\ writer.size = 2
    /\ writer.buffer[0] # writer.buffer[1]

\* An append was refused because the line was being written, though the
\* bytes would have fitted.
AppendRefusedWhileWriting ==
    /\ call.op = "append"
    /\ call.before.written > 0
    /\ 0 < Len(call.bytes)
    /\ Len(call.bytes) <= BUFFER_SIZE - call.before.size
    /\ writer = call.before


---------------------------------------------------------------------------
(* LineReader (src/io.rs): the line being received (ongoing_buffer, of     *)
(* which ongoing_written bytes count) and the last complete line           *)
(* (ready_buffer, ready_size).  Buffers are functions 0..BUFFER_SIZE-1 ->  *)
(* byte.                                                                   *)

MaxStream == 5     \* a run receives up to MaxStream bytes in all

\* b'\n' | b'\r'
IsTerminator(byte) == byte = 10 \/ byte = 13

\* LineReader::new
LineReader_new ==
    [ongoing_buffer |-> [i \in 0..(BUFFER_SIZE - 1) |-> 0], ongoing_written |-> 0,
     ready_buffer |-> [i \in 0..(BUFFER_SIZE - 1) |-> 0], ready_size |-> 0]

\* LineReader::ready_bytes
ready_bytes(r) ==
    IF r.ready_size # 0 THEN Some([i \in 1..r.ready_size |-> r.ready_buffer[i - 1]])
    ELSE None

\* LineReader::clear
reader_clear(r) == [r EXCEPT !.ready_size = 0]

\* A round of the loop that hands over a line at every terminator, an
\* empty one included.
read_byte_handing_over_empty_lines(r, byte) ==
    IF IsTerminator(byte)
    THEN [reader |-> [r EXCEPT !.ready_buffer =
                                   [i \in DOMAIN r.ready_buffer |->
                                       IF i < r.ongoing_written THEN r.ongoing_buffer[i]
                                       ELSE r.ready_buffer[i]],
                               !.ready_size = r.ongoing_written,
                               !.ongoing_written = 0],
          updated |-> TRUE]
    ELSE IF r.ongoing_written >= BUFFER_SIZE
    THEN [reader |-> r, updated |-> FALSE]
    ELSE [reader |-> [r EXCEPT !.ongoing_buffer[r.ongoing_written] = byte,
                               !.ongoing_written = r.ongoing_written + 1],
          updated |-> FALSE]

\* One round of `for &byte in arrived_bytes`: the match on the byte.
\* `updated` is whether the round set ready_updated.
read_byte(r, byte) ==
    IF IsTerminator(byte) /\ r.ongoing_written = 0
    THEN [reader |-> r, updated |-> FALSE]
    ELSE IF IsTerminator(byte)
    THEN [reader |-> [r EXCEPT !.ready_buffer =
                                   [i \in DOMAIN r.ready_buffer |->
                                       IF i < r.ongoing_written THEN r.ongoing_buffer[i]
                                       ELSE r.ready_buffer[i]],
                               !.ready_size = r.ongoing_written,
                               !.ongoing_written = 0],
          updated |-> TRUE]
    ELSE IF r.ongoing_written >= BUFFER_SIZE
    THEN [reader |-> r, updated |-> FALSE]
    ELSE [reader |-> [r EXCEPT !.ongoing_buffer[r.ongoing_written] = byte,
                               !.ongoing_written = r.ongoing_written + 1],
          updated |-> FALSE]

\* LineReader::poll_read
RECURSIVE poll_read_loop(_, _, _)
poll_read_loop(r, arrived_bytes, ready_updated) ==
    IF arrived_bytes = <<>> THEN [reader |-> r, ret |-> ready_updated]
    ELSE LET round == read_byte(r, Head(arrived_bytes))
         IN  poll_read_loop(round.reader, Tail(arrived_bytes),
                            ready_updated \/ round.updated)

poll_read(r, arrived_bytes) == poll_read_loop(r, arrived_bytes, FALSE)

---------------------------------------------------------------------------
(* The reader as a state machine: packets of any bytes, and clear.         *)
(* call.arrived is every byte received so far.                             *)

StreamBytes == DataBytes \cup {10, 13}

ReaderInit ==
    /\ NoCacheUnderTest
    /\ NoTableUnderTest
    /\ NoFontUnderTest
    /\ NoTextUnderTest
    /\ writer = <<>>
    /\ reader = LineReader_new
    /\ panicked = FALSE
    /\ call = [op |-> "none", arrived |-> <<>>]

ReaderFrame == UNCHANGED <<cacheVars, panicked, pre, inserted, tableVars, fontVars,
                           drawVars, writer>>

\* reader.poll_read(arrived_bytes)
PollRead(arrived_bytes) ==
    /\ Len(call.arrived) + Len(arrived_bytes) <= MaxStream
    /\ LET r == poll_read(reader, arrived_bytes)
       IN  /\ reader' = r.reader
           /\ call' = [op |-> "poll_read", bytes |-> arrived_bytes, ret |-> r.ret,
                       before |-> reader, arrived |-> call.arrived \o arrived_bytes]
    /\ ReaderFrame

\* reader.clear()
ReaderClear ==
    /\ reader' = reader_clear(reader)
    /\ call' = [op |-> "clear", before |-> reader, arrived |-> call.arrived]
    /\ ReaderFrame

ReaderNext ==
    \/ \E arrived_bytes \in BytesUpTo(StreamBytes, MaxPacket) : PollRead(arrived_bytes)
    \/ ReaderClear

SpecReader == ReaderInit /\ [][ReaderNext]_vars


---------------------------------------------------------------------------
(* Claims about the reader, checked under SpecReader.  The lines are read  *)
(* off the stream of all bytes received, not off the reader's buffers.     *)

FirstN(s, n) == SubSeq(s, 1, Min(Len(s), n))

\* The bytes of `stream` before position `end` back to the terminator
\* before them (or to the start).
RunBefore(stream, end) ==
    LET starts == {j \in 1..end : \A k \in j..(end - 1) : ~IsTerminator(stream[k])}
        start == CHOOSE j \in starts : \A k \in starts : j <= k
    IN  SubSeq(stream, start, end - 1)

\* Position i holds a terminator that ends a non-empty line.
EndsALine(stream, i) ==
    /\ i > 1
    /\ IsTerminator(stream[i])
    /\ ~IsTerminator(stream[i - 1])

\* The last line of the stream that a terminator has ended.
LastLine(stream) ==
    LET ends == {i \in 1..Len(stream) : EndsALine(stream, i)}
        last == CHOOSE i \in ends : \A k \in ends : k <= i
    IN  RunBefore(stream, last)

\* The bytes received since the last terminator.
OngoingLine(stream) == RunBefore(stream, Len(stream) + 1)

\* The positions of the last packet in the stream.
PacketPositions == (Len(call.arrived) - Len(call.bytes) + 1)..Len(call.arrived)

\* C17: poll_read returns true exactly when a '\n' or '\r' of the packet
\* arrives while the ongoing line is non-empty; the ready line is then the
\* bytes accumulated since the previous terminator, the first BUFFER_SIZE
\* of them; the ongoing line restarts empty (it is always the bytes since
\* the last terminator, the first BUFFER_SIZE of them); a terminator on an
\* empty ongoing line changes nothing, and the ready line is never replaced
\* by an empty one.
C17_PollReadHandsOverLines ==
    call.op = "poll_read" =>
        /\ call.ret <=> \E i \in PacketPositions : EndsALine(call.arrived, i)
        /\ call.ret =>
               ready_bytes(reader) = Some(FirstN(LastLine(call.arrived), BUFFER_SIZE))
        /\ [i \in 1..reader.ongoing_written |-> reader.ongoing_buffer[i - 1]]
               = FirstN(OngoingLine(call.arrived), BUFFER_SIZE)
        /\ ~call.ret =>
               /\ reader.ready_size = call.before.ready_size
               /\ reader.ready_buffer = call.before.ready_buffer
        /\ (call.before.ongoing_written = 0
                /\ \A i \in 1..Len(call.bytes) : IsTerminator(call.bytes[i])) =>
               reader = call.before
        /\ reader.ready_size = 0 => call.before.ready_size = 0

\* A line longer than the buffer, received in two packets, was handed over,
\* and the terminator after its terminator changed nothing.
C17_Witness ==
    /\ call.op = "poll_read"
    /\ call.ret
    /\ Len(LastLine(call.arrived)) > BUFFER_SIZE
    /\ Len(call.bytes) < Len(LastLine(call.arrived))
    /\ Len(call.arrived) >= 2
    /\ IsTerminator(call.arrived[Len(call.arrived)])
    /\ IsTerminator(call.arrived[Len(call.arrived) - 1])
    /\ reader.ready_size = BUFFER_SIZE
    /\ reader.ongoing_written = 0


---------------------------------------------------------------------------
(* Claims about the cache's index mapping, checked under Spec.             *)

\* The mapping has at most SIZE keys, every key -> i has i in 0..SIZE-1
\* with slot i holding that key, and no two keys share a slot.
IndexMappingWellFormed ==
    /\ Cardinality(DOMAIN index_map) <= SIZE
    /\ \A k \in DOMAIN index_map :
           /\ index_map[k] \in 0..(SIZE - 1)
           /\ data[index_map[k]].key = k
    /\ \A k1, k2 \in DOMAIN index_map : k1 # k2 => index_map[k1] # index_map[k2]

\* A put panicked at `.expect("No spece left")`: the slot had been read and
\* written, the cursor is still inside the array.
InsertFailed == panicked /\ cursor \in 0..(SIZE - 1)

\* C18: in every state reachable by get, put and get_or_else the index
\* mapping has at most N keys, every mapping key -> i has 0 <= i < N with
\* slot i holding exactly that key, and no two keys map to the same slot;
\* consequently registering a key never fails for lack of space.  Fails: the
\* put that finds the cache full does fail; it panics before it reaches the
\* registration.
C18_IndexMappingAndRoomToRegister ==
    /\ IndexMappingWellFormed
    /\ call.op \in {"put", "get_or_else"} => ~panicked

\* What remains of C18: the mapping is well formed in every reachable
\* state, and no put ever fails at the registration itself; the only panic
\* is the slot read of a put whose cursor is SIZE.
MappingWellFormedAndInsertNeverFails ==
    /\ IndexMappingWellFormed
    /\ ~InsertFailed
    /\ panicked => cursor = SIZE /\ Len(inserted) = SIZE + 1

\* A full mapping: SIZE keys, each in its slot.
MappingFull ==
    /\ SIZE = MaxCap
    /\ Cardinality(DOMAIN index_map) = SIZE
    /\ cursor = SIZE
    /\ ~panicked

\* No key is ever registered in a mapping that already holds SIZE keys: the
\* case the claim's last part is about does not occur.
NoRegistrationIntoAFullMapping ==
    (call.op \in {"put", "get_or_else"} /\ call.puts # <<>> /\ ~panicked) =>
        Cardinality(DOMAIN pre.index_map) < SIZE


\* Every key handed to put so far is still cached, with its value.
EveryPutKeyCached ==
    \A i \in 1..Len(inserted) : get(Cache, inserted[i].key) = Some(inserted[i].val)

\* C19: while the cache is not yet full an insertion evicts nothing: after
\* k <= N puts of k distinct keys into a new cache, for any keys, the key
\* type's default value 0 included, get returns the stored value for every
\* one of the k keys.  Fails: a put into a slot never written before removes
\* the key 0 from the mapping, the slot's initial key.
C19_NoEvictionBeforeFull ==
    (Len(inserted) <= SIZE /\ DistinctKeys(inserted)) => EveryPutKeyCached

\* What remains of C19: it holds when the default key is not put before
\* another key.
NoEvictionBeforeFullUnlessDefaultKey ==
    (Len(inserted) <= SIZE /\ DistinctKeys(inserted)
        /\ \A i \in 1..(Len(inserted) - 1) : inserted[i].key # 0) =>
        /\ ~panicked
        /\ EveryPutKeyCached

\* Key 0 was put, then another key, into a cache with room for both: key 0
\* is gone.
DefaultKeyEvicted ==
    /\ SIZE = 2
    /\ Len(inserted) = 2
    /\ inserted[1].key = 0
    /\ inserted[2].key # 0
    /\ ~panicked
    /\ get(Cache, 0) = None
    /\ get(Cache, inserted[2].key) = Some(inserted[2].val)

\* Two keys other than 0 were put into a cache of two slots and are cached.
TwoKeysCached ==
    /\ SIZE = 2
    /\ Len(inserted) = 2
    /\ DistinctKeys(inserted)
    /\ \A i \in 1..2 : inserted[i].key # 0
    /\ EveryPutKeyCached


\* One write_str of everything written so far, on a fresh JisTextDirect
\* with the same origin, style and wrap width, on the font as the first
\* call found it.
SingleWriteOfAll ==
    RunCall(begin_call(NewText("write_str", layout.offset, layout.wrapping_width,
                               layout.fore_color, layout.back_color),
                       layout.written),
            layout.font_at_first, <<>>)

\* The text of the first of two calls.
FirstText == SubSeq(layout.written, 1, Len(layout.written) - Len(layout.text))

\* Two write_str calls on one JisTextDirect have returned Ok.
TwoWritesReturned ==
    /\ layout # <<>>
    /\ layout.mode = "write_str"
    /\ layout.calls = 2
    /\ layout.clean
    /\ layout.pc = "returned"
    /\ ~panicked

\* The two calls drew what one call of the whole text draws and left the
\* same relx, rely and wrap counter.
SameAsSingleWrite ==
    LET one == SingleWriteOfAll
    IN  /\ ~one.panic
        /\ target = one.drawn
        /\ layout.relx = one.layout.relx
        /\ layout.rely = one.layout.rely
        /\ layout.chars_in_line = one.layout.chars_in_line

\* C20: streaming output does not depend on how the text is split into
\* calls: write_str(s1) followed by write_str(s2) on one JisTextDirect
\* issues the same glyph draws at the same offsets, and ends with the same
\* relx, rely and wrap counter, as a single write_str(s1 + s2).  Fails: each
\* call ends its last line, so s2 starts on a new row even if s1 did not end
\* with a line break.
C20_SplitIndependent ==
    TwoWritesReturned => SameAsSingleWrite

\* What remains of C20: the split does not matter when the first part is
\* empty or ends with a line break, or the second part is empty.
SplitIndependentAtLineBreaks ==
    (TwoWritesReturned
        /\ \/ FirstText = <<>>
           \/ layout.text = <<>>
           \/ FirstText[Len(FirstText)] = NewLine) =>
        SameAsSingleWrite

\* "A" then "B": the second glyph is at the start of the next row.
SplitMovesSecondGlyph ==
    /\ TwoWritesReturned
    /\ layout.wrapping_width = 0
    /\ FirstText = <<65>>
    /\ layout.text = <<66>>
    /\ Len(target) = 2
    /\ target[2].offset = <<TextOffset[1], TextOffset[2] + HEIGHT>>
    /\ SingleWriteOfAll.drawn[2].offset = <<TextOffset[1] + WIDTH, TextOffset[2]>>
    /\ layout.rely = 2 * HEIGHT
    /\ SingleWriteOfAll.layout.rely = HEIGHT

\* A split at a line break, with glyphs on both sides.
SplitAtLineBreak ==
    /\ TwoWritesReturned
    /\ Len(FirstText) = 2
    /\ FirstText[2] = NewLine
    /\ Len(target) = 2
    /\ SameAsSingleWrite


---------------------------------------------------------------------------
(* Characters above U+FFFF, checked under SpecFont.                        *)

\* The last call queried the font for a character above U+FFFF.
QueriedAboveFFFF == call.op = "font_query" /\ call.key > 65535

\* What the table answers for the character of the last call.
TableAnswer ==
    Unicode2JisTable_query(table_bytes, table[1].table, build, call.key)

\* C21: a character whose codepoint is above 0xFFFF has no table entry:
\* Unicode2JisTable::query returns None for it and JisFont::query returns
\* None for it, whatever the table and cache contents.  Fails: both take
\* `c as u16`, so the character is answered as the one with its low 16 bits.
C21_AboveFFFFHasNoEntry ==
    QueriedAboveFFFF =>
        /\ ~panicked
        /\ ~TableAnswer.panic
        /\ TableAnswer.ret = None
        /\ call.ret = None

\* What does hold: the character is answered exactly as the character with
\* its low 16 bits is, by the table and by the font (same cache key).
AboveFFFFAnsweredAsLow16Bits ==
    QueriedAboveFFFF =>
        /\ TableAnswer = Unicode2JisTable_query(table_bytes, table[1].table, build,
                                                as_u16(call.key))
        /\ JisFont_query(pre, font_bitmap, table_bytes, table[1].table, build, call.key)
             = JisFont_query(pre, font_bitmap, table_bytes, table[1].table, build,
                             as_u16(call.key))
        /\ ~panicked =>
             call.ret = generate_glyph(font_bitmap, table_bytes, table[1].table, build,
                                       as_u16(call.key)).ret

\* U+10041 is given the kuten and the glyph of 'A'.
AboveFFFFGivenGlyphOfA ==
    /\ QueriedAboveFFFF
    /\ ~panicked
    /\ call.key = 65601
    /\ TableAnswer.ret = Some(<<3, 33>>)
    /\ call.ret = Some(fetch(font_bitmap, <<3, 33>>).glyph)

\* U+10FFFF, whose low 16 bits have no entry, is answered None.
AboveFFFFAnsweredNone ==
    /\ QueriedAboveFFFF
    /\ ~panicked
    /\ call.key = 1114111
    /\ call.ret = None


---------------------------------------------------------------------------
(* The table over arbitrary accepted blobs: any chain_length header, any   *)
(* bucket offsets, any element contents.                                   *)

\* chain_length headers: 0, odd, even but not a power of two, powers of two.
AnyChainLengths == {0, 1, 6, 16, 32768}

\* Bucket offsets: inside a table of up to MaxElems elements, at its end or
\* past it, and the largest u16.
AnyOffsets == {0, 1, MaxElems, 65535}

\* Element codepoints, in any order.
AnyCodePoints == {3, 12354}

AnyElements == UNION {[1..n -> AnyCodePoints] : n \in 0..MaxElems}

\* The number of buckets of a blob that new accepts under the header
\* chain_length: 0x10000 >> trailing_zeros(chain_length), the shift amount
\* masked at chain_length 0 (a build with overflow checks accepts no such
\* blob).
AcceptedChains(chain_length) ==
    IF chain_length = 0 THEN 65536 ELSE 65536 \div (2 ^ CountTrailingZeros(chain_length))

\* The blob of the length that matches its header, with the given elements
\* and with the offset even_offset in the even buckets of `chars` and
\* odd_offset in the odd ones.
AnyBlob(chain_length, elements, even_offset, odd_offset, chars) ==
    LET chains_count == AcceptedChains(chain_length)
    IN  [len          |-> 4 + 2 * chains_count + 4 * Len(elements),
         header       |-> <<chain_length % 256, chain_length \div 256,
                            Len(elements) % 256, Len(elements) \div 256>>,
         chains_count |-> chains_count,
         chains       |-> [b \in {as_u16(c) \div (65536 \div chains_count) : c \in chars} |->
                              IF b % 2 = 0 THEN even_offset ELSE odd_offset],
         elements     |-> elements]

AnyBlobs ==
    {AnyBlob(chain_length, ElementsOf(s), even_offset, odd_offset, QueryChars) :
        chain_length \in AnyChainLengths, s \in AnyElements,
        even_offset \in AnyOffsets, odd_offset \in AnyOffsets}

AnyTableInit ==
    /\ NoIoUnderTest
    /\ NoCacheUnderTest
    /\ NoFontUnderTest
    /\ NoTextUnderTest
    /\ build \in Builds
    /\ table_bytes \in AnyBlobs
    /\ table = <<>>
    /\ panicked = FALSE
    /\ call = NoCall

SpecAnyTable == AnyTableInit /\ [][TableNext]_vars

---------------------------------------------------------------------------
(* Claims about the table over arbitrary blobs, checked under SpecAnyTable. *)

\* The bucket the last query read, and the offset it found there.
QueriedChain == shr(as_u16(call.key), table[1].table.chain_length_bit, 32)
QueriedChainStart ==
    u16_from_le_bytes(SliceAt(table_bytes, table[1].table.chain_indices, QueriedChain * 2),
                      SliceAt(table_bytes, table[1].table.chain_indices,
                              QueriedChain * 2 + 1))

\* new accepted the blob and a query was made.
QueriedAcceptedTable ==
    /\ table # <<>>
    /\ table[1].result = "Ok"
    /\ call.op = "query"

\* C22: for every blob accepted by Unicode2JisTable::new (whatever its
\* chain_length header, bucket offsets and element contents) and every
\* character, query terminates with Some or None after inspecting at most
\* 2^bucket_span_bits elements, reading only bucket index < chains_count and
\* element indices < elements_count.
C22_QueryStaysInsideAcceptedTable ==
    QueriedAcceptedTable =>
        LET t == table[1].table
        IN  /\ ~panicked
            /\ call.ret = None \/ IsSome(call.ret)
            /\ t.chain_length_bit >= 16 \/ call.inspected <= 2 ^ t.chain_length_bit
            /\ QueriedChain < table_bytes.chains_count
            /\ SliceLen(t.chain_indices) = 2 * table_bytes.chains_count
            /\ SliceLen(t.table_elements) = 4 * t.elements_count
            /\ call.inspected > 0 =>
                   QueriedChainStart + call.inspected <= t.elements_count

\* A query that reads the whole bucket, two elements, of a table whose
\* chain_length 6 is no power of two and whose elements are not sorted, in a
\* bucket that does not start at element 0.
C22_Witness ==
    /\ QueriedAcceptedTable
    /\ ~panicked
    /\ HeaderChainLength(table_bytes) = 6
    /\ ~SortedAscending(table_bytes.elements)
    /\ QueriedChainStart = 1
    /\ call.inspected = 2
    /\ Len(table_bytes.elements) = 3

\* A bucket offset past the elements: nothing is read.
OffsetPastTheElements ==
    /\ QueriedAcceptedTable
    /\ ~panicked
    /\ QueriedChainStart = 65535
    /\ Len(table_bytes.elements) = MaxElems
    /\ call.inspected = 0
    /\ call.ret = None

\* chain_length 0, accepted by a build without overflow checks: the bucket
\* is the codepoint and its span one element.
ChainLengthZeroQueried ==
    /\ QueriedAcceptedTable
    /\ ~panicked
    /\ HeaderChainLength(table_bytes) = 0
    /\ ~build.overflow_checks
    /\ QueriedChain = 12354
    /\ call.inspected = 1
    /\ IsSome(call.ret)

\* The clamp of the bucket's end is what keeps the scan inside the table.
ScanEndedByTheClamp ==
    /\ QueriedAcceptedTable
    /\ ~panicked
    /\ call.ret = None
    /\ call.inspected > 0
    /\ QueriedChainStart + call.inspected = table[1].table.elements_count
    /\ call.inspected < 2 ^ Min(table[1].table.chain_length_bit, 16)
    /\ table_bytes.elements[Len(table_bytes.elements)].cp < as_u16(call.key)


---------------------------------------------------------------------------
(* The layout grid under a wrap width, checked under SpecDraw.             *)

\* The columns of a wrap width: 0, WIDTH, ..., (width - 1) * WIDTH.
Columns(width) == {k * WIDTH : k \in 0..(width - 1)}

\* The position of a glyph relative to the origin of the text.
RelX(glyph) == glyph.offset[1] - layout.offset[1]
RelY(glyph) == glyph.offset[2] - layout.offset[2]

\* The glyph the last step handed to the target, accepted or not.
HandedToTarget ==
    /\ call.op = "step"
    /\ call.ret # None
    /\ call.target_does \in {"accept"} \cup TargetErrors

\* Every glyph is on the grid, the glyph of the last step included.
GlyphsOnTheGrid ==
    /\ \A i \in 1..Len(target) :
           /\ RelX(target[i]) \in Columns(layout.wrapping_width)
           /\ RelY(target[i]) >= 0
           /\ RelY(target[i]) % HEIGHT = 0
    /\ HandedToTarget =>
           /\ call.before.relx \in Columns(layout.wrapping_width)
           /\ call.before.rely >= 0
           /\ call.before.rely % HEIGHT = 0

\* No two glyphs of the running (or last) call are at the same offset, a
\* glyph the target refused included.
OffsetsOfCallDiffer ==
    /\ \A i, j \in layout.first_draw..Len(target) :
           i < j => target[i].offset # target[j].offset
    /\ (HandedToTarget /\ call.target_does \in TargetErrors) =>
           \A i \in layout.first_draw..Len(target) :
               target[i].offset # <<layout.offset[1] + call.before.relx,
                                    layout.offset[2] + call.before.rely>>

\* rely does not decrease in a step: in a streaming text it is kept from
\* call to call, in JisText::draw it is a local that each call starts at 0.
RelyDoesNotDecrease ==
    (HasWrapping(layout) /\ (layout.mode = "write_str" \/ layout.pc = "running")) =>
        layout'.rely >= layout.rely

\* C23: with wrap width W >= 1, in both drawing modes and for every input
\* string, every glyph is drawn at relx in {0, WIDTH, ..., (W-1)*WIDTH} and
\* at rely a multiple of HEIGHT, the wrap counter is always < W between
\* characters, no two glyphs of one call are drawn at the same offset, and
\* rely never decreases.
C23_WrappedGlyphsOnTheGrid ==
    /\ [](HasWrapping(layout) =>
              /\ GlyphsOnTheGrid
              /\ layout.chars_in_line < layout.wrapping_width
              /\ layout.chars_in_line >= 0
              /\ OffsetsOfCallDiffer)
    /\ [][RelyDoesNotDecrease]_vars

\* A streaming text of wrap width 2 has drawn three glyphs in its second
\* call, after a first call that ended in the middle of a row: the third
\* glyph is at the start of the row below the first two.
C23_Witness ==
    /\ layout.mode = "write_str"
    /\ layout.wrapping_width = 2
    /\ layout.calls = 2
    /\ layout.pc = "returned"
    /\ ~panicked
    /\ layout.first_draw = 1
    /\ Len(target) = 3
    /\ RelX(target[2]) = WIDTH
    /\ RelY(target[2]) = RelY(target[1])
    /\ RelX(target[3]) = 0
    /\ RelY(target[3]) = RelY(target[1]) + HEIGHT

\* The same in JisText::draw, with wrap width 1: every glyph in column 0.
WrapOneColumn ==
    /\ layout.mode = "draw"
    /\ layout.wrapping_width = 1
    /\ layout.pc = "returned"
    /\ ~panicked
    /\ Len(target) - layout.first_draw = 2
    /\ \A i \in layout.first_draw..Len(target) : RelX(target[i]) = 0


---------------------------------------------------------------------------
(* Sending lines: set_line, then poll_write again and again with a write   *)
(* function that reports between 1 byte and all it was offered, or fails.  *)
(* `call` also keeps the history of the line being sent: `line`, the bytes *)
(* of the last set_line that was not refused, and `reported`, the bytes    *)
(* the write function has been offered and has reported written since.     *)

SendingInit ==
    /\ NoCacheUnderTest
    /\ NoTableUnderTest
    /\ NoFontUnderTest
    /\ NoTextUnderTest
    /\ reader = <<>>
    /\ writer = LineWriter_new
    /\ panicked = FALSE
    /\ call = [op |-> "none", before |-> LineWriter_new, ret |-> <<>>, offered |-> None,
               line |-> <<>>, reported |-> <<>>]

\* set_line installs the line (it is not refused).
Installs(w, bytes) == Len(bytes) <= BUFFER_SIZE /\ ~(is_writing(w) /\ ~is_completed(w))

\* writer.set_line(bytes)
SendLine(bytes) ==
    /\ writer' = set_line(writer, bytes)
    /\ call' = [op |-> IF Installs(writer, bytes) THEN "set_line" ELSE "set_line_refused",
                before |-> writer, ret |-> <<>>, offered |-> None,
                line |-> IF Installs(writer, bytes) THEN bytes ELSE call.line,
                reported |-> IF Installs(writer, bytes) THEN <<>> ELSE call.reported]
    /\ WriterFrame

\* writer.poll_write(write_func) with a write_func that answers `answer`
\* when it is called.
Poll(answer) ==
    LET r == poll_write(writer, answer)
    IN  /\ writer' = r.writer
        /\ call' = [op |-> "poll_write", before |-> writer, ret |-> r.ret,
                    offered |-> r.offered, line |-> call.line,
                    reported |-> IF r.offered # None /\ r.ret[1] = "Ok"
                                 THEN call.reported \o SubSeq(Unwrap(r.offered), 1, r.ret[2])
                                 ELSE call.reported]
        /\ WriterFrame

\* write_func succeeds and reports n bytes, 1 <= n <= the slice it received
\* (it is not called, and n is of no account, once the line is completed).
PollOk(n) ==
    /\ 1 <= n
    /\ n <= Max(1, writer.size - writer.written)
    /\ Poll(<<"Ok", n>>)

\* write_func fails.
PollErr == Poll(<<"Err">>)

SendingNext ==
    \/ \E bytes \in BytesUpTo(DataBytes, MaxPacket) : SendLine(bytes)
    \/ \E n \in 1..BUFFER_SIZE : PollOk(n)
    \/ PollErr

SpecSending == SendingInit /\ [][SendingNext]_vars

\* The caller goes on polling with a write function that succeeds.
SpecSendingFair == SpecSending /\ WF_vars(\E n \in 1..BUFFER_SIZE : PollOk(n))

---------------------------------------------------------------------------
(* Claims about sending a line, checked under SpecSendingFair.             *)

\* 0 <= written <= size <= BUFFER_SIZE
WrittenWithinSize ==
    /\ 0 <= writer.written
    /\ writer.written <= writer.size
    /\ writer.size <= BUFFER_SIZE

\* The writer holds the line of the last set_line, and what has been
\* reported written are the first `written` bytes of it, once each.
ReportedInOrder ==
    /\ writer.size = Len(call.line)
    /\ Line(writer.buffer, writer.size) = call.line
    /\ call.reported = SubSeq(call.line, 1, writer.written)

\* A poll of an uncompleted line calls the write function with what is
\* left of the line; a poll of a completed one returns 0 and calls nothing.
PollOffersWhatIsLeft ==
    call.op = "poll_write" =>
        IF is_completed(call.before)
        THEN /\ call.offered = None
             /\ call.ret = <<"Ok", 0>>
             /\ writer = call.before
        ELSE call.offered = Some(SubSeq(call.line, call.before.written + 1,
                                        Len(call.line)))

\* A write function that fails leaves the writer as it was.
FailureChangesNothing ==
    (call.op = "poll_write" /\ call.ret = <<"Err">>) =>
        /\ writer.size = call.before.size
        /\ writer.written = call.before.written
        /\ writer = call.before

\* C24: after set_line of a line of n <= BUFFER_SIZE bytes, if every
\* poll_write is given a write function that succeeds and reports between 1
\* and the length of the slice it received, repeated poll_write eventually
\* makes is_completed true, the slices handed out are successive suffixes of
\* the line so that each byte is reported written exactly once and in order,
\* 0 <= written <= size <= BUFFER_SIZE holds throughout, and every poll_write
\* after completion returns 0 without calling the write function; a write
\* function that fails leaves size and written unchanged.
C24_PollWriteSendsTheLine ==
    /\ [](/\ WrittenWithinSize
          /\ ReportedInOrder
          /\ PollOffersWhatIsLeft
          /\ FailureChangesNothing
          /\ is_completed(writer) => call.reported = call.line)
    /\ (call.op = "set_line") ~> is_completed(writer)

\* A line of BUFFER_SIZE different bytes was sent, and a poll after its
\* completion returned 0 without calling the write function.
C24_Witness ==
    /\ call.op = "poll_write"
    /\ Len(call.line) = BUFFER_SIZE
    /\ call.line[1] # call.line[2]
    /\ is_completed(call.before)
    /\ call.ret = <<"Ok", 0>>
    /\ call.reported = call.line

\* A poll in the middle of a line: one byte written, the rest offered, the
\* write function failing.
FailedInTheMiddle ==
    /\ call.op = "poll_write"
    /\ call.ret = <<"Err">>
    /\ call.before.written = 1
    /\ call.offered = Some(<<call.line[2]>>)
    /\ ~is_completed(writer)

===========================================================================
